---- MODULE Spec2Model ----
(***************************************************************************)
(* A model of the path tracer `tracing`: the SAH bounding volume hierarchy *)
(* (src/src/bvh.rs), the scene built on it (src/src/scene.rs), the path    *)
(* integrator (src/src/integrator.rs) and the render loops                 *)
(* (src/src/lib.rs).                                                       *)
(*                                                                         *)
(* Numbers.  Coordinates are integers of a small grid and ray directions   *)
(* have components in {-1, 0, 1}, so every distance the code computes is   *)
(* an integer and f32 arithmetic on it is exact.  The three special f32    *)
(* values the code meets are kept: INFINITY, NEG_INFINITY and NaN, with    *)
(* the IEEE-754 rules the code relies on (0 * inf = NaN, a comparison with *)
(* NaN is false, f32::min and f32::max return the other operand when one   *)
(* is NaN).                                                                *)
(***************************************************************************)
EXTENDS Integers, Sequences, FiniteSets, TLC

(***************************************************************************)
(* f32 values: a finite integer, INFINITY, NEG_INFINITY or NaN.            *)
(***************************************************************************)
INFINITY == 1000000
NEG_INFINITY == 0 - INFINITY
NaN == 7777777

IsNaN(a) == a = NaN
IsFinite(a) == a # NaN /\ a < INFINITY /\ a > NEG_INFINITY

\* IEEE comparisons: false as soon as one operand is NaN
FLt(a, b) == a # NaN /\ b # NaN /\ a < b
FGt(a, b) == a # NaN /\ b # NaN /\ a > b
FGe(a, b) == a # NaN /\ b # NaN /\ a >= b
FLe(a, b) == a # NaN /\ b # NaN /\ a <= b

\* f32::min / f32::max: when one operand is NaN the other is returned
FMin(a, b) == IF a = NaN THEN b ELSE IF b = NaN THEN a ELSE IF a < b THEN a ELSE b
FMax(a, b) == IF a = NaN THEN b ELSE IF b = NaN THEN a ELSE IF a > b THEN a ELSE b

Sign(a) == IF a > 0 THEN 1 ELSE IF a < 0 THEN -1 ELSE 0

\* a - b
FSub(a, b) ==
    IF a = NaN \/ b = NaN THEN NaN
    ELSE IF ~IsFinite(a) /\ ~IsFinite(b) THEN (IF a = b THEN NaN ELSE a)
    ELSE IF ~IsFinite(a) THEN a
    ELSE IF ~IsFinite(b) THEN 0 - b
    ELSE a - b

\* a * b
FMul(a, b) ==
    IF a = NaN \/ b = NaN THEN NaN
    ELSE IF IsFinite(a) /\ IsFinite(b) THEN a * b
    ELSE IF a = 0 \/ b = 0 THEN NaN
    ELSE IF Sign(a) = Sign(b) THEN INFINITY ELSE NEG_INFINITY

\* 1.0 / d for a direction component d in {-1, 0, 1}; the zero is +0.0
FInv(d) == IF d = 0 THEN INFINITY ELSE d

(***************************************************************************)
(* Vec3 and Axis                                                           *)
(***************************************************************************)
Axes == <<"X", "Y", "Z">>
AxisIdx(axis) == CASE axis = "X" -> 1 [] axis = "Y" -> 2 [] axis = "Z" -> 3

Thrice(v) == <<v, v, v>>
VAdd(a, b) == <<a[1] + b[1], a[2] + b[2], a[3] + b[3]>>
VSub(a, b) == <<a[1] - b[1], a[2] - b[2], a[3] - b[3]>>
VScale(a, s) == <<a[1] * s, a[2] * s, a[3] * s>>
Dot(a, b) == a[1] * b[1] + a[2] * b[2] + a[3] * b[3]
Cross(a, b) ==
    << a[2] * b[3] - a[3] * b[2],
       a[3] * b[1] - a[1] * b[3],
       a[1] * b[2] - a[2] * b[1] >>
VMin(a, b) == <<FMin(a[1], b[1]), FMin(a[2], b[2]), FMin(a[3], b[3])>>
VMax(a, b) == <<FMax(a[1], b[1]), FMax(a[2], b[2]), FMax(a[3], b[3])>>
\* normalized() of a vector along one axis: its sign vector
Normalized(a) == <<Sign(a[1]), Sign(a[2]), Sign(a[3])>>

PointAt(ray, t) == VAdd(ray.origin, VScale(ray.direction, t))

(***************************************************************************)
(* AABB                                                                    *)
(***************************************************************************)
AABBEmpty == [min |-> Thrice(INFINITY), max |-> Thrice(NEG_INFINITY)]
AABBFromPoint(p) == [min |-> p, max |-> p]
AABBExtendPoint(b, p) == [min |-> VMin(b.min, p), max |-> VMax(b.max, p)]
AABBUnion(a, b) == [min |-> VMin(a.min, b.min), max |-> VMax(a.max, b.max)]
\* twice the centre: (min + max) * 0.5 orders items as min + max does
AABBCenter2(b) == VAdd(b.min, b.max)

\* 2 (dx dy + dx dz + dy dz); the empty box has d = -inf and area +inf
SurfaceArea(b) ==
    IF b.min[1] = INFINITY THEN INFINITY
    ELSE LET d == VSub(b.max, b.min)
         IN  2 * (d[1] * d[2] + d[1] * d[3] + d[2] * d[3])

\* (t_near, t_far) of the slab test, (-1, -1) for a miss
\* (`x \in {e}` binds the value of e, so that e is evaluated once however
\* often x is used)
IntersectFast(b, ray, inv_dir) ==
    LET Tmin(k) == FMul(FSub(b.min[k], ray.origin[k]), inv_dir[k])
        Tmax(k) == FMul(FSub(b.max[k], ray.origin[k]), inv_dir[k])
    IN  CHOOSE res \in
            { CHOOSE nf \in
                  { IF FGt(t_near, t_far) THEN <<-1, -1>> ELSE <<t_near, t_far>>
                    : t_near \in {FMax(FMax(FMin(t_min[1], t_max[1]), FMin(t_min[2], t_max[2])),
                                       FMin(t_min[3], t_max[3]))},
                      t_far \in {FMin(FMin(FMax(t_min[1], t_max[1]), FMax(t_min[2], t_max[2])),
                                      FMax(t_min[3], t_max[3]))} } : TRUE
              : t_min \in {<<Tmin(1), Tmin(2), Tmin(3)>>},
                t_max \in {<<Tmax(1), Tmax(2), Tmax(3)>>} } : TRUE

\* p lies in the closed box b
Inside(b, p) == \A k \in 1..3 : b.min[k] <= p[k] /\ p[k] <= b.max[k]
\* box a lies in box b
Encloses(b, a) == \A k \in 1..3 : b.min[k] <= a.min[k] /\ a.max[k] <= b.max[k]

(***************************************************************************)
(* Surfaces and objects.  The surfaces of the model are parallelograms     *)
(* whose edges run along two axes of the grid.                             *)
(***************************************************************************)
\* Parallelogram::new: the cached normal and squared edge lengths
ParallelogramNew(position, edge1, edge2) ==
    [ position |-> position, edge1 |-> edge1, edge2 |-> edge2,
      normal |-> Normalized(Cross(edge2, edge1)),
      l1 |-> Dot(edge1, edge1), l2 |-> Dot(edge2, edge2) ]

None == [some |-> FALSE]
Some(v) == [some |-> TRUE, val |-> v]

\* u / l1 - floor(u / l1), kept in units of 1 / l
UvFrac(u, l) == u % l

\* Parallelogram::intersect.  With nd = 0 the quotient t is +-inf or NaN:
\* -inf returns at `t < 0.0`, and for +inf and NaN the point p has a NaN
\* coordinate along the normal (0 * inf), u is NaN and the range test fails.
ParallelogramIntersect(s, ray) ==
    LET nd == Dot(s.normal, ray.direction)
        num == Dot(s.normal, s.position) - Dot(s.normal, ray.origin)
    IN  IF nd = 0 THEN None
        ELSE CHOOSE res \in
                 { LET p == VSub(PointAt(ray, t), s.position)
                       u == Dot(s.edge1, p)
                       v == Dot(s.edge2, p)
                   IN  IF t < 0 THEN None
                       ELSE IF ~(0 <= u /\ u <= s.l1 /\ 0 <= v /\ v <= s.l2) THEN None
                       ELSE Some([ distance |-> t, normal |-> s.normal,
                                   uv |-> <<UvFrac(u, s.l1), UvFrac(v, s.l2)>> ])
                   : t \in {num * nd} } : TRUE     \* num / nd for nd in {-1, 1}

\* Parallelogram::aabb
ParallelogramAabb(s) ==
    AABBExtendPoint(
        AABBExtendPoint(
            AABBExtendPoint(AABBFromPoint(s.position), VAdd(s.position, s.edge1)),
            VAdd(s.position, s.edge2)),
        VAdd(VAdd(s.position, s.edge1), s.edge2))

\* Object: Emitter(AreaLight) or Scatterer { surface, material }.  `id` names
\* the area light or the material the object carries.
IsEmitter(o) == o.kind = "Emitter"
ObjectIntersect(o, ray) == ParallelogramIntersect(o.surface, ray)
ObjectAabb(o) == ParallelogramAabb(o.surface)

\* the vertices of the meshes of the model: two triangles of the square
\* (0, 0, 0) .. (4, 4, 0) and one triangle far from them
MeshVertices ==
    << <<0, 0, 0>>, <<4, 0, 0>>, <<0, 4, 0>>, <<4, 4, 0>>,
       <<12, 0, 4>>, <<16, 0, 4>>, <<12, 4, 4>> >>

\* a Triangle { idxs } of a mesh; `id` names it, as it names an object
IsTriangle(t) == "idxs" \in DOMAIN t
\* vertices[t.idxs[k] as usize]
TriVertex(t, k) == MeshVertices[t.idxs[k + 1] + 1]

\* the closures Mesh::new hands to BVH::build; the centroid is kept as
\* three times its value, v0 + v1 + v2, which orders the items as it does
TriProjCentroid(t, axis) ==
    TriVertex(t, 0)[AxisIdx(axis)] + TriVertex(t, 1)[AxisIdx(axis)]
        + TriVertex(t, 2)[AxisIdx(axis)]
TriBbox(t) ==
    AABBUnion(AABBUnion(AABBFromPoint(TriVertex(t, 0)), AABBFromPoint(TriVertex(t, 1))),
              AABBFromPoint(TriVertex(t, 2)))

\* the closures handed to BVH::build: by Scene::new for an object, by
\* Mesh::new for a triangle
ProjCentroid(o, axis) ==
    IF IsTriangle(o) THEN TriProjCentroid(o, axis)
    ELSE AABBCenter2(ObjectAabb(o))[AxisIdx(axis)]
ItemBbox(o) == IF IsTriangle(o) THEN TriBbox(o) ELSE ObjectAabb(o)

(***************************************************************************)
(* BVH::build                                                              *)
(***************************************************************************)
INTERSECTION_COST == 1
\* 2.0 * TRAVERSAL_COST, TRAVERSAL_COST = 1.5
TWO_TRAVERSAL_COST == 3

\* element i of a 0-based slice
At(s, i) == s[i + 1]

RECURSIVE InsertByKey(_, _, _)
\* x put behind every element whose key is <= its own: a stable insertion
InsertByKey(s, x, axis) ==
    IF s = <<>> THEN <<x>>
    ELSE IF ProjCentroid(s[Len(s)], axis) <= ProjCentroid(x, axis)
         THEN Append(s, x)
         ELSE Append(InsertByKey(SubSeq(s, 1, Len(s) - 1), x, axis), s[Len(s)])

RECURSIVE SortProjectedCentroid(_, _)
\* slice::sort_by is a stable sort
SortProjectedCentroid(s, axis) ==
    IF s = <<>> THEN <<>>
    ELSE InsertByKey(SortProjectedCentroid(SubSeq(s, 1, Len(s) - 1), axis),
                     s[Len(s)], axis)

RECURSIVE UnionBbox(_, _, _)
\* the union of item_bbox over s[from..to] (1-based, inclusive), from empty
UnionBbox(s, from, to) ==
    IF from > to THEN AABBEmpty
    ELSE AABBUnion(UnionBbox(s, from, to - 1), ItemBbox(s[to]))

\* buffer[i] of the left-to-right scan, i = 0 .. len - 1
PrefixArea(s, i) == SurfaceArea(UnionBbox(s, 1, i + 1))

\* (mutant) the bbox of the scan taken one item early
ScanBboxShort(s) == UnionBbox(s, 1, Len(s) - 1)

\* the bbox the left-to-right scan ends with
ScanBbox(s) == UnionBbox(s, 1, Len(s))

\* sah_cost as the fraction num / den; "nan" when node_bbox has no area
\* (tri_factor = 1 / 0 = inf, and inf * 0 = NaN, inf * x = inf)
SahCost(area, prims_left, left_area, prims_right, right_area) ==
    IF area = 0 \/ area = INFINITY THEN [nan |-> TRUE, num |-> 0, den |-> 1]
    ELSE [ nan |-> FALSE,
           num |-> TWO_TRAVERSAL_COST * area
                   + INTERSECTION_COST * (prims_left * left_area + prims_right * right_area),
           den |-> area ]

\* sah_cost < best_cost
CostLess(c, best) == ~c.nan /\ c.num * best.den < best.num * c.den

RECURSIVE ScanSplits(_, _, _, _, _, _, _)
\* the right-to-left scan of one axis over i = len - 1 .. 1; s is the sorted
\* slice, buf the scratch buffer of the slice (buffer[i - 1] is buf[i]),
\* best is [best_cost, best_axis, best_index]
ScanSplits(s, buf, n, area, axis, i, best) ==
    IF i < 1 THEN best
    ELSE LET right_area == SurfaceArea(UnionBbox(s, i + 1, Len(s)))
             sah_cost == SahCost(area, i, buf[i], n - i, right_area)
             nb == IF CostLess(sah_cost, best.best_cost)
                   THEN [best_cost |-> sah_cost, best_axis |-> axis, best_index |-> i]
                   ELSE best
         IN  ScanSplits(s, buf, n, area, axis, i - 1, nb)

\* (mutant) the slice written at the head of the array
SpliceAtZero(s, lo, part) ==
    [k \in 1..Len(s) |-> IF k <= Len(part) THEN part[k] ELSE s[k]]

\* s with the slice that starts at 0-based index lo replaced by part
Splice(s, lo, part) ==
    [k \in 1..Len(s) |-> IF k > lo /\ k <= lo + Len(part) THEN part[k - lo] ELSE s[k]]

\* (mutant) the split index taken for the absolute index
MidFromZero(begin, best_index) == best_index

\* mid = begin + best_index
Mid(begin, best_index) == begin + best_index

\* a call build_rec(.., items, begin, end, buffer) about to enter its axis
\* loop; [lo, hi) is where its items slice (and its buffer slice) lies in the
\* array handed to BVH::build
NewTask(begin, end, lo, hi) ==
    [ begin |-> begin, end |-> end, lo |-> lo, hi |-> hi,
      axis |-> 1,
      best_axis |-> "None",
      best_cost |-> [nan |-> FALSE, num |-> INTERSECTION_COST * (end - begin), den |-> 1],
      best_index |-> 0,
      node_bbox |-> AABBEmpty ]

\* the nodes of the tree are numbered as a heap: the root is 1, the
\* children of node p are 2p and 2p + 1
Child(p, k) == 2 * p + k
NoNodes == [p \in {} |-> 0]
Without(f, p) == [q \in DOMAIN f \ {p} |-> f[q]]

\* Node::Leaf { begin, end } and Node::Split { split_axis, children } with the
\* bbox of their BVH; `handed` keeps which items the call that made the node
\* was handed in its slice
LeafNode(bbox, begin, end, handed) ==
    [ bbox |-> bbox, kind |-> "Leaf", begin |-> begin, end |-> end,
      split_axis |-> "None", handed |-> handed ]
SplitNode(bbox, begin, end, axis, handed) ==
    [ bbox |-> bbox, kind |-> "Split", begin |-> begin, end |-> end,
      split_axis |-> axis, handed |-> handed ]

RECURSIVE LightIdxsOneBased(_, _)
\* (mutant) the emitters numbered from one
LightIdxsOneBased(objs, n) ==
    IF n = 0 THEN <<>>
    ELSE IF IsEmitter(objs[n]) THEN Append(LightIdxsOneBased(objs, n - 1), n)
         ELSE LightIdxsOneBased(objs, n - 1)

RECURSIVE LightIdxs(_, _)
\* the emitters of the object array, in array order (0-based indices)
LightIdxs(objs, n) ==
    IF n = 0 THEN <<>>
    ELSE IF IsEmitter(objs[n]) THEN Append(LightIdxs(objs, n - 1), n - 1)
         ELSE LightIdxs(objs, n - 1)

(***************************************************************************)
(* BVH::intersect                                                          *)
(***************************************************************************)
\* Default::default() of the data (normal, uv)
DefaultData == [normal |-> <<0, 0, 0>>, uv |-> <<0, 0>>]

\* the closure intersect_item of Scene::intersect; Scene::occluded uses the
\* same closure with the data dropped.  Here and below, `x \in {e}` binds the
\* value of e, so that e is evaluated once however often x is used.
IntersectItem(objs, ray, i) ==
    CHOOSE res \in
        { IF ~its.some THEN [t |-> -1, d |-> DefaultData]
          ELSE [t |-> its.val.distance, d |-> [normal |-> its.val.normal, uv |-> its.val.uv]]
          : its \in {ObjectIntersect(At(objs, i), ray)} } : TRUE

RECURSIVE ItemsLoop(_, _, _, _, _)
\* the loop of intersect_items from index i on; acc is [t, i, d] with
\* t = t_min
ItemsLoop(objs, ray, i, end, acc) ==
    IF i >= end THEN acc
    ELSE CHOOSE res \in
             { ItemsLoop(objs, ray, i + 1, end,
                         IF 0 < r.t /\ r.t < acc.t THEN [t |-> r.t, i |-> i, d |-> r.d] ELSE acc)
               : r \in {IntersectItem(objs, ray, i)} } : TRUE

IntersectItems(objs, ray, begin, end) ==
    CHOOSE res \in
        { IF r.t = INFINITY THEN [r EXCEPT !.t = -1] ELSE r
          : r \in {ItemsLoop(objs, ray, begin, end, [t |-> INFINITY, i |-> 0, d |-> DefaultData])} }
        : TRUE

\* the pruning test of intersect_rec on (t_near, t_far)
Pruned(nf, dist_max) == FLt(nf[2], 0) \/ (FGe(nf[1], 0) /\ FGe(nf[1], dist_max))

RECURSIVE IntersectRec(_, _, _, _, _, _)
IntersectRec(tr, objs, ray, node, dist_max, inv_dir) ==
    LET bvh == tr[node]
    IN  IF \E nf \in {IntersectFast(bvh.bbox, ray, inv_dir)} : Pruned(nf, dist_max)
        THEN [t |-> -1, i |-> 0, d |-> DefaultData]
        ELSE IF bvh.kind = "Leaf" THEN IntersectItems(objs, ray, bvh.begin, bvh.end)
        ELSE LET neg == ray.direction[AxisIdx(bvh.split_axis)] < 0
                 c1 == IF neg THEN Child(node, 1) ELSE Child(node, 0)
                 c2 == IF neg THEN Child(node, 0) ELSE Child(node, 1)
             IN  CHOOSE res \in
                     { IF its1.t < 0
                       THEN IntersectRec(tr, objs, ray, c2, dist_max, inv_dir)
                       ELSE CHOOSE nearer \in
                                { IF its2.t < 0 \/ its1.t < its2.t THEN its1 ELSE its2
                                  : its2 \in {IntersectRec(tr, objs, ray, c2, its1.t, inv_dir)} }
                                : TRUE
                       : its1 \in {IntersectRec(tr, objs, ray, c1, dist_max, inv_dir)} } : TRUE

InvDir(ray) == <<FInv(ray.direction[1]), FInv(ray.direction[2]), FInv(ray.direction[3])>>

BVHIntersect(tr, objs, ray) ==
    CHOOSE res \in {IntersectRec(tr, objs, ray, 1, INFINITY, inv_dir) : inv_dir \in {InvDir(ray)}} : TRUE

(***************************************************************************)
(* Scene                                                                   *)
(***************************************************************************)
\* the unit of length of the grid is EPSILON
EPSILON == 1

AreaLight(o) == [type |-> "AreaLight", id |-> o.id]
EnvMap == [type |-> "EnvMap", id |-> 0]

\* Scene::intersect
SceneIntersect(tr, objs, bg, ray) ==
    CHOOSE res \in
        { IF r.t > 0
          THEN LET o == At(objs, r.i)
               IN  IF IsEmitter(o)
                   THEN Some([hit |-> "Emitter", light |-> AreaLight(o), dist |-> r.t])
                   ELSE Some([ hit |-> "Scatterer",
                               intersection |-> [distance |-> r.t, normal |-> r.d.normal, uv |-> r.d.uv],
                               material |-> o.id ])
          ELSE IF bg THEN Some([hit |-> "Emitter", light |-> EnvMap, dist |-> INFINITY])
               ELSE None
          : r \in {BVHIntersect(tr, objs, ray)} } : TRUE

\* Scene::nb_lights
NbLights(lidx, bg) == Len(lidx) + (IF bg THEN 1 ELSE 0)

\* Scene::get_light
GetLight(objs, lidx, bg, i) ==
    IF i < Len(lidx) /\ At(lidx, i) < Len(objs) /\ IsEmitter(At(objs, At(lidx, i)))
    THEN Some(AreaLight(At(objs, At(lidx, i))))
    ELSE IF bg THEN Some(EnvMap) ELSE None

\* Scene::occluded
SceneOccluded(tr, objs, point, normal, dir, max_dist) ==
    IF Dot(dir, normal) <= 0 THEN TRUE
    ELSE LET shadow_ray == [origin |-> VAdd(point, VScale(normal, EPSILON)), direction |-> dir]
         IN  \E t \in {BVHIntersect(tr, objs, shadow_ray).t} :
                 t > 0 /\ t < FSub(max_dist, 2 * EPSILON)

(***************************************************************************)
(* The scenes and queries of the model                                     *)
(***************************************************************************)
\* the largest number of objects of a scene
MaxItems == 5

Wall(x, y) == ParallelogramNew(<<x, y, 0>>, <<0, 2, 0>>, <<0, 0, 2>>)
Floor(x, y) == ParallelogramNew(<<x, y, 0>>, <<0, 0, 2>>, <<2, 0, 0>>)

Pool ==
    << [id |-> 1, kind |-> "Scatterer", surface |-> Wall(0, 0)],
       [id |-> 2, kind |-> "Emitter",   surface |-> Wall(0, 2)],
       [id |-> 3, kind |-> "Scatterer", surface |-> Floor(12, 0)],
       [id |-> 4, kind |-> "Emitter",   surface |-> Wall(12, 2)],
       [id |-> 5, kind |-> "Scatterer", surface |-> Wall(60, 0)],
       [id |-> 6, kind |-> "Scatterer", surface |-> Wall(60, 2)],
       [id |-> 7, kind |-> "Emitter",   surface |-> Wall(72, 0)],
       [id |-> 8, kind |-> "Scatterer", surface |-> Wall(72, 2)] >>

Reverse(s) == [k \in 1..Len(s) |-> s[Len(s) + 1 - k]]

\* the object arrays handed to Scene::new: up to MaxItems neighbours of the
\* pool, in either order
Scenes ==
    LET windows == {SubSeq(Pool, i, j) : i \in 1..(Len(Pool) + 1), j \in 0..Len(Pool)}
        short == {w \in windows : Len(w) <= MaxItems}
    IN  short \cup {Reverse(w) : w \in short}

Directions ==
    { <<1, 0, 0>>, <<-1, 0, 0>>, <<0, 1, 0>>, <<0, -1, 0>>,
      <<1, 1, 0>>, <<1, -1, 0>>, <<-1, 1, 0>>, <<-1, -1, 0>> }
Origins == {<<x, y, 1>> : x \in {-1, 3, 63}, y \in {0, 1, 2, 3}}
Rays == {[origin |-> o, direction |-> d] : o \in Origins, d \in Directions}

(***************************************************************************)
(* State                                                                   *)
(***************************************************************************)
VARIABLES
    input,        \* the object array handed to Scene::new
    objects,      \* Scene.objects: the array BVH::build permutes in place
    background,   \* Scene.background is Some(envmap)
    buffer,       \* the scratch buffer vec![0.0; n] of BVH::build
    tree,         \* the nodes of Scene.bvh built so far
    tasks,        \* the calls of build_rec that are running
    phase,        \* "build" while Scene::new runs, "ready" once it has returned
    light_idxs,   \* Scene.light_idxs
    query,        \* the last call of a Scene method and what it returned
    path,         \* the locals of a running estimate_radiance
    render        \* the state of a render loop

sceneVars == <<input, objects, background, buffer, tree, tasks, phase, light_idxs>>
vars == <<input, objects, background, buffer, tree, tasks, phase, light_idxs, query, path, render>>

NoQuery == [op |-> "none"]
NoPath == [pc |-> "idle"]
NoRender == [pc |-> "idle"]

\* Scene::new up to the call of BVH::build, which enters build_rec on the
\* whole array with a zeroed buffer
SceneInit(objs, bg) ==
    /\ input = objs
    /\ objects = objs
    /\ background = bg
    /\ buffer = [k \in 1..Len(objs) |-> 0]
    /\ tree = NoNodes
    /\ tasks = (1 :> NewTask(0, Len(objs), 0, Len(objs)))
    /\ phase = "build"
    /\ light_idxs = <<>>

Init ==
    /\ \E objs \in Scenes, bg \in BOOLEAN : SceneInit(objs, bg)
    /\ query = NoQuery
    /\ path = NoPath
    /\ render = NoRender

(***************************************************************************)
(* build_rec, one step per iteration of the loop over the axes and one for *)
(* the match on best_axis.  The two calls rayon::join forks are both       *)
(* running from then on and their steps interleave in any order.           *)
(***************************************************************************)
Ids(s, lo, hi) == {s[k].id : k \in (lo + 1)..hi}

\* one iteration of `for &axis in &[X, Y, Z]` of the call that builds node p
BuildAxis(p) ==
    /\ phase = "build"
    /\ p \in DOMAIN tasks
    /\ tasks[p].axis <= 3
    /\ LET t == tasks[p]
           axis == Axes[t.axis]
           n == t.end - t.begin
           s == SortProjectedCentroid(SubSeq(objects, t.lo + 1, t.hi), axis)
           buf == [i \in 1..Len(s) |-> PrefixArea(s, i - 1)]
           node_bbox == IF axis = "X" THEN ScanBbox(s) ELSE t.node_bbox
           best == ScanSplits(s, buf, n, SurfaceArea(node_bbox), axis, Len(s) - 1,
                              [best_cost |-> t.best_cost, best_axis |-> t.best_axis,
                               best_index |-> t.best_index])
       IN  /\ objects' = Splice(objects, t.lo, s)
           /\ buffer' = Splice(buffer, t.lo, buf)
           /\ tasks' = [tasks EXCEPT ![p] =
                           [t EXCEPT !.axis = @ + 1,
                                     !.node_bbox = node_bbox,
                                     !.best_cost = best.best_cost,
                                     !.best_axis = best.best_axis,
                                     !.best_index = best.best_index]]
    /\ UNCHANGED <<input, background, tree, phase, light_idxs, query, path, render>>

\* `match best_axis` of the call that builds node p: a leaf, or the sort on
\* the split axis, the two split_at_mut and the fork of the child calls
BuildFinish(p) ==
    /\ phase = "build"
    /\ p \in DOMAIN tasks
    /\ tasks[p].axis = 4
    /\ LET t == tasks[p]
           handed == Ids(objects, t.lo, t.hi)
       IN  IF t.best_axis = "None"
           THEN /\ tree' = (p :> LeafNode(t.node_bbox, t.begin, t.end, handed)) @@ tree
                /\ tasks' = Without(tasks, p)
                /\ UNCHANGED objects
           ELSE LET s == IF t.best_axis # "Z"
                         THEN SortProjectedCentroid(SubSeq(objects, t.lo + 1, t.hi), t.best_axis)
                         ELSE SubSeq(objects, t.lo + 1, t.hi)
                    mid == Mid(t.begin, t.best_index)
                    cut == t.lo + t.best_index
                IN  /\ objects' = Splice(objects, t.lo, s)
                    /\ tree' = (p :> SplitNode(t.node_bbox, t.begin, t.end, t.best_axis, handed)) @@ tree
                    /\ tasks' = (Child(p, 0) :> NewTask(t.begin, mid, t.lo, cut))
                                @@ (Child(p, 1) :> NewTask(mid, t.end, cut, t.hi))
                                @@ Without(tasks, p)
    /\ UNCHANGED <<input, background, buffer, phase, light_idxs, query, path, render>>

Build == \E p \in DOMAIN tasks : BuildAxis(p) \/ BuildFinish(p)

\* Scene::new after BVH::build has returned: the indices of the emitters of
\* the reordered array
SceneNew ==
    /\ phase = "build"
    /\ DOMAIN tasks = {}
    /\ light_idxs' = LightIdxs(objects, Len(objects))
    /\ phase' = "ready"
    /\ UNCHANGED <<input, objects, background, buffer, tree, tasks, query, path, render>>

(***************************************************************************)
(* Calls of the methods of a built scene                                   *)
(***************************************************************************)
MaxDists == {3, 8, INFINITY}
Points == {<<x, y, 1>> : x \in {-2, 2}, y \in {0, 1}}
Normals == {<<1, 0, 0>>, <<0, 1, 0>>}

Intersect ==
    /\ phase = "ready" /\ query = NoQuery /\ path = NoPath
    /\ \E ray \in Rays :
          query' = [op |-> "intersect", ray |-> ray,
                    its |-> BVHIntersect(tree, objects, ray),
                    res |-> SceneIntersect(tree, objects, background, ray)]
    /\ UNCHANGED <<sceneVars, path, render>>

Occluded ==
    /\ phase = "ready" /\ query = NoQuery /\ path = NoPath
    /\ \E point \in Points, normal \in Normals, dir \in Directions, max_dist \in MaxDists :
          query' = [op |-> "occluded", point |-> point, normal |-> normal, dir |-> dir,
                    max_dist |-> max_dist,
                    res |-> SceneOccluded(tree, objects, point, normal, dir, max_dist)]
    /\ UNCHANGED <<sceneVars, path, render>>

\* get_light(i) for every i up to and including nb_lights
Light ==
    /\ phase = "ready" /\ query = NoQuery /\ path = NoPath
    /\ \E i \in 0..NbLights(light_idxs, background) :
          query' = [op |-> "get_light", i |-> i,
                    nb_lights |-> NbLights(light_idxs, background),
                    res |-> GetLight(objects, light_idxs, background, i)]
    /\ UNCHANGED <<sceneVars, path, render>>

\* the call returns
Return ==
    /\ query # NoQuery
    /\ query' = NoQuery
    /\ UNCHANGED <<sceneVars, path, render>>

Next == Build \/ SceneNew \/ Intersect \/ Occluded \/ Light \/ Return

Spec == Init /\ [][Next]_vars

(***************************************************************************)
(* What the claims speak of                                                *)
(***************************************************************************)
\* the strictly positive distances at which the items are hit
PositiveTs(objs, ray) ==
    {IntersectItem(objs, ray, i).t : i \in 0..(Len(objs) - 1)} \ {t \in -1..0 : TRUE}

\* the result of a loop over all items: the smallest positive t, or -1
ClosestT(objs, ray) ==
    LET ts == PositiveTs(objs, ray)
    IN  IF ts = {} THEN -1 ELSE CHOOSE t \in ts : \A u \in ts : t <= u

\* every hit intersect_item reports lies inside item_bbox of the item
HitsInsideBbox(objs, ray) ==
    \A i \in 0..(Len(objs) - 1) :
        LET t == IntersectItem(objs, ray, i).t
        IN  t > 0 => Inside(ItemBbox(At(objs, i)), PointAt(ray, t))

\* the ray lies in a face plane of the bbox of a node without crossing it:
\* a direction component is zero and the origin is on the min or the max
\* plane of that axis, the box having some extent along it
InFacePlane(ray) ==
    \E p \in DOMAIN tree, k \in 1..3 :
        /\ ray.direction[k] = 0
        /\ tree[p].bbox.min[k] < tree[p].bbox.max[k]
        /\ ray.origin[k] \in {tree[p].bbox.min[k], tree[p].bbox.max[k]}

Leaves == {p \in DOMAIN tree : tree[p].kind = "Leaf"}

\* C1: BVH::intersect returns the smallest strictly positive t over all
\* items, with an index that attains it, and -1 when no item is hit
C1_AgreesWithBruteForce ==
    (query.op = "intersect" /\ HitsInsideBbox(objects, query.ray)) =>
        LET best == ClosestT(objects, query.ray)
        IN  /\ query.its.t = best
            /\ best > 0 => IntersectItem(objects, query.ray, query.its.i).t = best

\* the same for the rays that lie in no face plane of a node's bbox
C1_AgreesOffFacePlanes ==
    (query.op = "intersect" /\ ~InFacePlane(query.ray)) =>
        LET best == ClosestT(objects, query.ray)
        IN  /\ query.its.t = best
            /\ best > 0 => IntersectItem(objects, query.ray, query.its.i).t = best

\* C2: the leaf ranges partition [0, n), the array is a permutation of the
\* input, and the range [begin, end) of every node holds, in the array as it
\* is now, the items the node's call of build_rec was handed
C2_LeavesPartition ==
    /\ \A p \in DOMAIN tree :
          /\ 0 <= tree[p].begin /\ tree[p].begin <= tree[p].end /\ tree[p].end <= Len(objects)
          /\ Ids(objects, tree[p].begin, tree[p].end) = tree[p].handed
    /\ Len(objects) = Len(input)
    /\ {objects[k] : k \in 1..Len(objects)} = {input[k] : k \in 1..Len(input)}
    /\ phase = "ready" =>
          \A i \in 0..(Len(objects) - 1) :
              Cardinality({p \in Leaves : tree[p].begin <= i /\ i < tree[p].end}) = 1

C2_Witness ==
    /\ phase = "ready"
    /\ Cardinality(Leaves) >= 3
    /\ objects # input

\* C3: the bbox of a node contains item_bbox of every item of its range, for
\* the nodes of the tree and for node_bbox of a running call once it has
\* been recorded on X
C3_BboxEncloses ==
    /\ \A p \in DOMAIN tree :
          \A i \in tree[p].begin..(tree[p].end - 1) :
              Encloses(tree[p].bbox, ItemBbox(At(objects, i)))
    /\ \A p \in DOMAIN tasks :
          tasks[p].axis > 1 =>
              \A i \in tasks[p].lo..(tasks[p].hi - 1) :
                  Encloses(tasks[p].node_bbox, ItemBbox(At(objects, i)))

\* a split node whose range was reordered after its bbox was recorded
C3_Witness ==
    /\ phase = "ready"
    /\ objects # input
    /\ \E p \in DOMAIN tree : tree[p].kind = "Split" /\ tree[p].split_axis = "X"

\* the hit Scene::intersect reports for the object at index i
HitOf(objs, ray, i) ==
    LET r == IntersectItem(objs, ray, i)
        o == At(objs, i)
    IN  IF IsEmitter(o)
        THEN Some([hit |-> "Emitter", light |-> AreaLight(o), dist |-> r.t])
        ELSE Some([ hit |-> "Scatterer",
                    intersection |-> [distance |-> r.t, normal |-> r.d.normal, uv |-> r.d.uv],
                    material |-> o.id ])

\* C4: Scene::intersect returns the hit of a closest object with a positive
\* hit, and on a miss the environment map at infinity, or None without one
C4_SceneIntersect ==
    query.op = "intersect" =>
        LET best == ClosestT(objects, query.ray)
        IN  IF best > 0
            THEN \E i \in 0..(Len(objects) - 1) :
                    /\ IntersectItem(objects, query.ray, i).t = best
                    /\ query.res = HitOf(objects, query.ray, i)
            ELSE query.res = IF background
                             THEN Some([hit |-> "Emitter", light |-> EnvMap, dist |-> INFINITY])
                             ELSE None

\* the positions of the emitters in the array, and how many come before k
EmitterAt(objs) == {k \in 1..Len(objs) : IsEmitter(objs[k])}
EmittersBefore(objs, k) == Cardinality({j \in EmitterAt(objs) : j < k})

\* C8: nb_lights counts the emitters and the map; get_light(i) is the i-th
\* emitter of the reordered array for i < e and the map for i = e
C8_GetLight ==
    query.op = "get_light" =>
        LET e == Cardinality(EmitterAt(objects))
            i == query.i
        IN  /\ query.nb_lights = e + (IF background THEN 1 ELSE 0)
            /\ i < query.nb_lights =>
                  /\ query.res.some
                  /\ i < e =>
                        \E k \in EmitterAt(objects) :
                            /\ EmittersBefore(objects, k) = i
                            /\ query.res.val = AreaLight(objects[k])
                  /\ i = e => query.res.val = EnvMap

\* get_light returned the second emitter of an array the build reordered
C8_Witness ==
    /\ query.op = "get_light"
    /\ query.i = 1
    /\ query.res.some
    /\ query.res.val.type = "AreaLight"
    /\ objects # input

\* C9: occluded is true iff the direction leaves through the back face or
\* the closest positive hit of the shadow ray is nearer than max_dist - 2 EPSILON
C9_Occluded ==
    query.op = "occluded" =>
        LET shadow_ray == [ origin |-> VAdd(query.point, VScale(query.normal, EPSILON)),
                            direction |-> query.dir ]
            t == ClosestT(objects, shadow_ray)
        IN  query.res <=>
                \/ Dot(query.dir, query.normal) <= 0
                \/ (0 < t /\ t < FSub(query.max_dist, 2 * EPSILON))

(***************************************************************************)
(* The f32 values of the integrator (weights, densities, radiance) are     *)
(* exact fractions n / d with d >= 0: 1 / 0 is +inf, -1 / 0 is -inf and    *)
(* 0 / 0 is NaN, so that x / 0, 0 * inf and inf - inf come out as in IEEE  *)
(* arithmetic.  Rounding is not modelled.  Each operator binds its         *)
(* operands (x \in {a}) before it uses them, so that an operand that is    *)
(* itself an expression is evaluated once.                                 *)
(***************************************************************************)
RECURSIVE Gcd(_, _)
Gcd(a, b) ==
    IF b = 0 THEN a
    ELSE CHOOSE g \in {Gcd(y, x % y) : x \in {a}, y \in {b}} : TRUE

Abs(a) == IF a < 0 THEN 0 - a ELSE a

Q(n, d) ==
    CHOOSE r \in { IF y = 0 THEN [n |-> Sign(x), d |-> 0]
                   ELSE LET g == Gcd(Abs(x), Abs(y))
                        IN  [n |-> Sign(y) * (x \div g), d |-> Abs(y) \div g]
                   : x \in {n}, y \in {d} } : TRUE

QZero == [n |-> 0, d |-> 1]
QOne == [n |-> 1, d |-> 1]
QIsNaN(a) == CHOOSE r \in {x.n = 0 /\ x.d = 0 : x \in {a}} : TRUE

\* sums and products, with the common factors taken out before multiplying
QAdd(a, b) ==
    CHOOSE r \in { IF x.d = 0 \/ y.d = 0 THEN Q(x.n * y.d + y.n * x.d, x.d * y.d)
                   ELSE LET g == Gcd(x.d, y.d)
                        IN  Q(x.n * (y.d \div g) + y.n * (x.d \div g), (x.d \div g) * y.d)
                   : x \in {a}, y \in {b} } : TRUE

QMul(a, b) ==
    CHOOSE r \in { IF x.d = 0 \/ y.d = 0 \/ x.n = 0 \/ y.n = 0 THEN Q(x.n * y.n, x.d * y.d)
                   ELSE LET g1 == Gcd(Abs(x.n), y.d)
                            g2 == Gcd(Abs(y.n), x.d)
                        IN  Q((x.n \div g1) * (y.n \div g2), (x.d \div g2) * (y.d \div g1))
                   : x \in {a}, y \in {b} } : TRUE

\* a / b = a * (1 / b), and 1 / 0 = +inf
QInv(a) == CHOOSE r \in {Q(x.d, x.n) : x \in {a}} : TRUE
QDiv(a, b) == QMul(a, QInv(b))

\* comparisons with NaN are false
QLt(a, b) ==
    CHOOSE r \in { /\ ~QIsNaN(x) /\ ~QIsNaN(y)
                   /\ IF x.d = 0 \/ y.d = 0
                      THEN x.n * y.d < y.n * x.d \/ (x.d = y.d /\ x.n < y.n)
                      ELSE LET g == Gcd(x.d, y.d)
                           IN  x.n * (y.d \div g) < y.n * (x.d \div g)
                   : x \in {a}, y \in {b} } : TRUE
QGe(a, b) == CHOOSE r \in {~QIsNaN(x) /\ ~QIsNaN(y) /\ ~QLt(x, y) : x \in {a}, y \in {b}} : TRUE

\* f32::min and f32::max return the other operand when one is NaN
QMin(a, b) ==
    CHOOSE r \in { IF QIsNaN(x) THEN y ELSE IF QIsNaN(y) THEN x ELSE IF QLt(y, x) THEN y ELSE x
                   : x \in {a}, y \in {b} } : TRUE
QMax(a, b) ==
    CHOOSE r \in { IF QIsNaN(x) THEN y ELSE IF QIsNaN(y) THEN x ELSE IF QLt(x, y) THEN y ELSE x
                   : x \in {a}, y \in {b} } : TRUE

\* Vec3 of such values
VQZero == Thrice(QZero)
VQAdd(a, b) ==
    CHOOSE r \in { <<QAdd(x[1], y[1]), QAdd(x[2], y[2]), QAdd(x[3], y[3])>>
                   : x \in {a}, y \in {b} } : TRUE
VQMul(a, b) ==
    CHOOSE r \in { <<QMul(x[1], y[1]), QMul(x[2], y[2]), QMul(x[3], y[3])>>
                   : x \in {a}, y \in {b} } : TRUE
VQScale(a, s) ==
    CHOOSE r \in { <<QMul(x[1], y), QMul(x[2], y), QMul(x[3], y)>>
                   : x \in {a}, y \in {s} } : TRUE
VQDiv(a, s) ==
    CHOOSE r \in { <<QDiv(x[1], y), QDiv(x[2], y), QDiv(x[3], y)>>
                   : x \in {a}, y \in {s} } : TRUE
MaxElem(a) == CHOOSE r \in {QMax(QMax(x[1], x[2]), x[3]) : x \in {a}} : TRUE
\* (mutant) a test of x and y alone
HasNanXY(a) == CHOOSE r \in {QIsNaN(x[1]) \/ QIsNaN(x[2]) : x \in {a}} : TRUE
\* Vec3::has_nan
HasNan(a) == CHOOSE r \in {QIsNaN(x[1]) \/ QIsNaN(x[2]) \/ QIsNaN(x[3]) : x \in {a}} : TRUE

(***************************************************************************)
(* Shading frame, materials and lights                                     *)
(***************************************************************************)
\* Frame::from_up for a normal along an axis, where the square root is 1
FrameFromUp(normal) ==
    LET tangent == IF Abs(normal[1]) > Abs(normal[2])
                   THEN <<normal[3], 0, 0 - normal[1]>>
                   ELSE <<0, 0 - normal[3], normal[2]>>
    IN  <<tangent, normal, Cross(normal, tangent)>>

ToWorld(f, v) == VAdd(VAdd(VScale(f[1], v[1]), VScale(f[2], v[2])), VScale(f[3], v[3]))
ToLocal(f, v) == <<Dot(v, f[1]), Dot(v, f[2]), Dot(v, f[3])>>

CosTheta(v) == v[2]
Reflect(dir_in) == <<dir_in[1], 0 - dir_in[2], dir_in[3]>>

\* FRAC_1_PI, to the precision of pi = 22 / 7
INV_PI == Q(7, 22)

Diffuse(albedo) == [type |-> "Diffuse", albedo |-> albedo]
Mirror(albedo) == [type |-> "Mirror", albedo |-> albedo]

NULL_SAMPLE ==
    [direction |-> <<0, 0, 0>>, pdf |-> QZero, weight |-> VQZero, is_specular |-> FALSE]

\* cosine_hemisphere: y = sqrt(1 - u) > 0, and the one direction of its range
\* that lies on the grid is the pole (0, 1, 0), which it returns for u = 0
CosineHemisphere == <<0, 1, 0>>
CosineHemispherePdf(v) == QMul(Q(v[2], 1), INV_PI)

\* the NaN of f32
QNaN == [n |-> 0, d |-> 0]

(***************************************************************************)
(* Materials with a Fresnel term, on directions and indices of refraction  *)
(* whose square roots are rational                                         *)
(***************************************************************************)
QNeg(a) == [n |-> 0 - a.n, d |-> a.d]
QSub(a, b) == QAdd(a, QNeg(b))
QAbs(a) == [n |-> Abs(a.n), d |-> a.d]
QLe(a, b) == CHOOSE r \in {~QIsNaN(x) /\ ~QIsNaN(y) /\ ~QLt(y, x) : x \in {a}, y \in {b}} : TRUE
QGt(a, b) == QLt(b, a)
\* f32::signum: 1.0 for +0.0 and above, -1.0 below, NaN for NaN
QSignum(a) == IF QIsNaN(a) THEN QNaN ELSE IF a.n < 0 THEN Q(-1, 1) ELSE QOne

IsSquare(n) == \E r \in 0..n : r * r = n
\* the values whose f32::sqrt is a fraction
QExact(a) == QIsNaN(a) \/ a.n < 0 \/ a.d = 0 \/ (IsSquare(a.n) /\ IsSquare(a.d))
\* f32::sqrt: NaN below zero, +inf at +inf
QSqrt(a) ==
    CHOOSE r \in { IF QIsNaN(x) \/ x.n < 0 THEN QNaN
                   ELSE IF x.d = 0 THEN x
                   ELSE [ n |-> CHOOSE s \in 0..x.n : s * s = x.n,
                          d |-> CHOOSE s \in 0..x.d : s * s = x.d ]
                   : x \in {a} } : TRUE

VQ(x, y, z) == <<x, y, z>>
VQOf(v) == <<Q(v[1], 1), Q(v[2], 1), Q(v[3], 1)>>
VQNeg(a) == <<QNeg(a[1]), QNeg(a[2]), QNeg(a[3])>>
VQDot(a, b) == QAdd(QAdd(QMul(a[1], b[1]), QMul(a[2], b[2])), QMul(a[3], b[3]))
VQLength(a) == QSqrt(VQDot(a, a))
VQNormalized(a) == VQDiv(a, VQLength(a))
VQAvg(a) == QDiv(QAdd(QAdd(a[1], a[2]), a[3]), Q(3, 1))

\* PI, to the same precision as INV_PI
PI == Q(22, 7)

\* fresnel::dielectric_reflectance, returning (reflectance, cos_t)
DielectricReflectance(eta, cos_i0) ==
    CHOOSE res \in
        { CHOOSE r1 \in
              { IF QGt(sin_t2, QOne) THEN <<QOne, QZero>>
                ELSE CHOOSE r2 \in
                         { CHOOSE r3 \in
                               { <<QMul(QAdd(QMul(r_s, r_s), QMul(r_p, r_p)), Q(1, 2)), cos_t>>
                                 : r_s \in {QDiv(QSub(QMul(eta, cos_i), cos_t), QAdd(QMul(eta, cos_i), cos_t))},
                                   r_p \in {QDiv(QSub(QMul(eta, cos_t), cos_i), QAdd(QMul(eta, cos_t), cos_i))} } : TRUE
                           : cos_t \in {QSqrt(QSub(QOne, sin_t2))} } : TRUE
                : sin_t2 \in {QMul(QMul(eta, eta), QSub(QOne, QMul(cos_i, cos_i)))} } : TRUE
          : cos_i \in {QMax(QMin(cos_i0, QOne), Q(-1, 1))} } : TRUE

\* the calls of dielectric_reflectance whose square root is a fraction
ReflectanceExact(eta, cos_i0) ==
    \E cos_i \in {QMax(QMin(cos_i0, QOne), Q(-1, 1))} :
        QExact(QSub(QOne, QMul(QMul(eta, eta), QSub(QOne, QMul(cos_i, cos_i)))))

Plastic(albedo, ior) == [type |-> "Plastic", albedo |-> albedo, ior |-> ior]
Dielectric(albedo, ior) == [type |-> "Dielectric", albedo |-> albedo, ior |-> ior]
RoughPlastic(albedo, ior, roughness) ==
    [type |-> "RoughPlastic", albedo |-> albedo, ior |-> ior, roughness |-> roughness]
RoughConductor(albedo, roughness) ==
    [type |-> "RoughConductor", albedo |-> albedo, roughness |-> roughness]
\* a coat that absorbs nothing: scaled_sigma_a = 0, so that every exp is exp(0)
SmoothCoat(ior, substrate) ==
    [type |-> "SmoothCoat", ior |-> ior, scaled_sigma_a |-> VQZero, substrate |-> substrate]

\* microfacet::distribution and microfacet::pdf
Distribution(alpha, cos_theta) ==
    IF QLe(cos_theta, QZero) THEN QZero
    ELSE CHOOSE res \in
             { CHOOSE r \in
                   { QDiv(alpha2, QMul(QMul(QMul(PI, QMul(cos_theta2, cos_theta2)), x), x))
                     : x \in {QAdd(alpha2, QDiv(QSub(QOne, cos_theta2), cos_theta2))} } : TRUE
               : alpha2 \in {QMul(alpha, alpha)}, cos_theta2 \in {QMul(cos_theta, cos_theta)} } : TRUE
MicrofacetPdf(alpha, cos_theta) == QMul(Distribution(alpha, cos_theta), cos_theta)

\* the half vector (-dir_in + dir_out).normalized()
HalfVector(dir_in, dir_out) == VQNormalized(VQAdd(VQNeg(dir_in), dir_out))
HalfExact(dir_in, dir_out) ==
    \E s \in {VQAdd(VQNeg(dir_in), dir_out)} : QExact(VQDot(s, s))

\* Material::eval of Diffuse, Plastic and SmoothCoat on directions in
\* fractions; Mirror and Dielectric keep the default of the trait
RECURSIVE Eval(_, _, _)
Eval(m, dir_in, dir_out) ==
    CHOOSE res \in
        { CASE m.type = "Diffuse" ->
                 VQScale(m.albedo, QMul(INV_PI, QMax(CosTheta(dir_out), QZero)))
            [] m.type = "Plastic" ->
                 IF QLe(cos_i, QZero) \/ QLe(cos_o, QZero) THEN VQZero
                 ELSE CHOOSE r \in
                          { VQScale(m.albedo, QMul(QMul(INV_PI, cos_o), QSub(QOne, f)))
                            : f \in {DielectricReflectance(QInv(m.ior), cos_i)[1]} } : TRUE
            [] m.type = "SmoothCoat" ->
                 IF QLe(cos_i, QZero) /\ QLe(cos_o, QZero) THEN VQZero
                 ELSE CHOOSE r \in
                          { CHOOSE r2 \in
                                { VQScale(sub_eval,
                                          QMul(QMul(QDiv(QMul(QMul(eta, eta), cos_o), ro[2]),
                                                    QSub(QOne, ri[1])), QSub(QOne, ro[1])))
                                  : sub_eval \in
                                      {Eval(m.substrate,
                                            VQ(QMul(dir_in[1], eta), QNeg(ri[2]), QMul(dir_in[3], eta)),
                                            VQ(QMul(dir_out[1], eta), ro[2], QMul(dir_out[3], eta)))} } : TRUE
                            : eta \in {QInv(m.ior)},
                              ri \in {DielectricReflectance(QInv(m.ior), cos_i)},
                              ro \in {DielectricReflectance(QInv(m.ior), cos_o)} } : TRUE
            [] OTHER -> VQZero
          : cos_i \in {QNeg(CosTheta(dir_in))}, cos_o \in {CosTheta(dir_out)} } : TRUE

\* Material::pdf of the same, and of the two rough materials
RECURSIVE Pdf(_, _, _)
Pdf(m, dir_in, dir_out) ==
    CHOOSE res \in
        { CASE m.type = "Diffuse" ->
                 QMul(INV_PI, QMax(CosTheta(dir_out), QZero))
            [] m.type = "Plastic" ->
                 IF QLe(cos_i, QZero) \/ QLe(cos_o, QZero) THEN QZero
                 ELSE CHOOSE r \in
                          { QMul(QMul(cos_o, INV_PI), QSub(QOne, f))
                            : f \in {DielectricReflectance(QInv(m.ior), cos_i)[1]} } : TRUE
            [] m.type = "RoughPlastic" ->
                 IF QLe(cos_i, QZero) \/ QLe(cos_o, QZero) THEN QZero
                 ELSE CHOOSE r \in
                          { QAdd(QMul(QDiv(MicrofacetPdf(VQAvg(m.roughness), CosTheta(h)),
                                           QMul(Q(4, 1), VQDot(dir_out, h))), Q(1, 2)),
                                 QMul(QMul(cos_o, INV_PI), QSub(QOne, Q(1, 2))))
                            : h \in {HalfVector(dir_in, dir_out)} } : TRUE
            [] m.type = "RoughConductor" ->
                 IF QLe(cos_i, QZero) /\ QLe(cos_o, QZero) THEN QZero
                 ELSE CHOOSE r \in
                          { QDiv(MicrofacetPdf(VQAvg(m.roughness), CosTheta(h)),
                                 QMul(Q(4, 1), QNeg(VQDot(dir_in, h))))
                            : h \in {HalfVector(dir_in, dir_out)} } : TRUE
            [] m.type = "SmoothCoat" ->
                 IF QLe(cos_i, QZero) /\ QLe(cos_o, QZero) THEN QZero
                 ELSE CHOOSE r \in
                          { CHOOSE r2 \in
                                { QMul(QMul(Pdf(m.substrate,
                                                VQ(QMul(dir_in[1], eta), QNeg(ri[2]), QMul(dir_in[3], eta)),
                                                VQ(QMul(dir_out[1], eta), ro[2], QMul(dir_out[3], eta))),
                                            QSub(QOne, specular_prob)),
                                       QMul(QMul(eta, eta), QAbs(QDiv(cos_o, ro[2]))))
                                  : specular_prob \in
                                      {QDiv(ri[1], QAdd(ri[1], QMul(QOne, QSub(QOne, ri[1]))))} } : TRUE
                            : eta \in {QInv(m.ior)},
                              ri \in {DielectricReflectance(QInv(m.ior), cos_i)},
                              ro \in {DielectricReflectance(QInv(m.ior), cos_o)} } : TRUE
            [] OTHER -> QZero
          : cos_i \in {QNeg(CosTheta(dir_in))}, cos_o \in {CosTheta(dir_out)} } : TRUE

\* Dielectric::sample; rnd.x and rnd.y are not read
DielectricSample(m, dir_in, rnd_z) ==
    CHOOSE res \in
        { [ direction |-> IF QLt(rnd_z, r[1])
                          THEN VQ(dir_in[1], QNeg(dir_in[2]), dir_in[3])
                          ELSE VQ(QMul(dir_in[1], eta), QMul(r[2], QSignum(CosTheta(dir_in))),
                                  QMul(dir_in[3], eta)),
            pdf |-> IF QLt(rnd_z, r[1]) THEN r[1] ELSE QSub(QOne, r[1]),
            weight |-> m.albedo, is_specular |-> TRUE ]
          : eta \in {IF QGe(CosTheta(dir_in), QZero) THEN m.ior ELSE QInv(m.ior)},
            r \in {DielectricReflectance(IF QGe(CosTheta(dir_in), QZero) THEN m.ior ELSE QInv(m.ior),
                                         QAbs(CosTheta(dir_in)))} } : TRUE

\* fresnel::conductor_reflectance, on arguments whose square roots are
\* fractions
ConductorReflectance(eta, k, cos_i) ==
    CHOOSE res \in
        { CHOOSE r1 \in
            { CHOOSE r2 \in
                { CHOOSE r3 \in
                    { LET sin_i4 == QMul(sin_i2, sin_i2)
                          two_a_cos == QMul(QMul(Q(2, 1), a), cos_i)
                          r_s == QDiv(QSub(QAdd(a2_b2, cos_i2), two_a_cos),
                                      QAdd(QAdd(a2_b2, cos_i2), two_a_cos))
                          r_p == QDiv(QSub(QAdd(QMul(cos_i2, a2_b2), sin_i4),
                                           QMul(two_a_cos, sin_i2)),
                                      QAdd(QAdd(QMul(cos_i2, a2_b2), sin_i4),
                                           QMul(two_a_cos, sin_i2)))
                      IN  QMul(QAdd(r_s, QMul(r_s, r_p)), Q(1, 2))
                      : a \in {QSqrt(QMul(QAdd(a2_b2, x), Q(1, 2)))} } : TRUE
                  : a2_b2 \in {QSqrt(QMax(QAdd(QMul(x, x),
                                                QMul(Q(4, 1), QMul(QMul(eta, eta), QMul(k, k)))),
                                           QZero))} } : TRUE
              : x \in {QSub(QSub(QMul(eta, eta), QMul(k, k)), sin_i2)} } : TRUE
          : cos_i2 \in {QMul(cos_i, cos_i)}, sin_i2 \in {QSub(QOne, QMul(cos_i, cos_i))} } : TRUE

\* fresnel::conductor_reflectance_rgb
ConductorReflectanceRgb(ior, cos_i0) ==
    CHOOSE res \in
        { << ConductorReflectance(ior.eta[1], ior.k[1], cos_i),
             ConductorReflectance(ior.eta[2], ior.k[2], cos_i),
             ConductorReflectance(ior.eta[3], ior.k[3], cos_i) >>
          : cos_i \in {QMax(QMin(cos_i0, QOne), Q(-1, 1))} } : TRUE

Conductor(albedo, ior) == [type |-> "Conductor", albedo |-> albedo, ior |-> ior]

\* a direction of fractions whose components are whole, as a vector of the grid
OnGrid(v) == <<v[1].n \div v[1].d, v[2].n \div v[2].d, v[3].n \div v[3].d>>

\* Material::sample of Diffuse, Mirror, Dielectric and Conductor; rnd.z is
\* the one number
\* a sample of the model reads
MaterialSample(m, dir_in, rnd_z) ==
    IF m.type = "Dielectric"
    THEN CHOOSE res \in { [ direction |-> OnGrid(bs.direction), pdf |-> bs.pdf,
                            weight |-> bs.weight, is_specular |-> bs.is_specular ]
                          : bs \in {DielectricSample(m, VQOf(dir_in), rnd_z)} } : TRUE
    ELSE IF 0 - CosTheta(dir_in) <= 0 THEN NULL_SAMPLE
    ELSE IF m.type = "Diffuse"
         THEN [ direction |-> CosineHemisphere, pdf |-> CosineHemispherePdf(CosineHemisphere),
                weight |-> m.albedo, is_specular |-> FALSE ]
    ELSE IF m.type = "Conductor"
         THEN [ direction |-> Reflect(dir_in), pdf |-> QOne,
                weight |-> VQMul(m.albedo,
                                 ConductorReflectanceRgb(m.ior, Q(0 - CosTheta(dir_in), 1))),
                is_specular |-> TRUE ]
         ELSE [ direction |-> Reflect(dir_in), pdf |-> QOne,
                weight |-> m.albedo, is_specular |-> TRUE ]

\* Material::eval and Material::pdf: Diffuse overrides the defaults of the trait
MaterialEval(m, dir_in, dir_out) ==
    IF m.type = "Diffuse"
    THEN VQScale(m.albedo, QMul(INV_PI, QMax(Q(CosTheta(dir_out), 1), QZero)))
    ELSE VQZero

MaterialPdf(m, dir_in, dir_out) ==
    IF m.type = "Diffuse"
    THEN QMul(INV_PI, QMax(Q(CosTheta(dir_out), 1), QZero))
    ELSE QZero

\* (mutant) every material skips direct lighting
PurelySpecularAll(m) == TRUE

\* Material::is_purely_specular: the default of the trait, which Diffuse
\* overrides
IsPurelySpecular(m) == m.type # "Diffuse"

\* the cached area of Parallelogram::new, (l1 * l2).sqrt(), exact for the
\* edges of the model
ParallelogramArea(s) == CHOOSE r \in 0..(s.l1 * s.l2) : r * r = s.l1 * s.l2

\* Parallelogram::pdf_direct
ParallelogramPdfDirect(s, dir, dist) ==
    Q(dist * dist, ParallelogramArea(s) * Abs(Dot(s.normal, dir)))

\* the image of the environment map and the density of its distribution, as
\* tables over the directions of the grid
EnvImage(dir) == <<Q(2 + dir[1], 1), Q(2 + dir[2], 1), Q(2 + dir[3], 1)>>
EnvPdf(dir) == Q(1, 3 + dir[2])

\* AreaLight.emission of the light an emitter carries
Emission(id) == <<Q(id, 1), Q(2, 1), Q(1, 1)>>

SurfaceOf(objs, light) == objs[CHOOSE k \in 1..Len(objs) : objs[k].id = light.id].surface

\* Light::eval_direct of EnvMap and AreaLight
EvalDirect(light, dir) ==
    IF light.type = "EnvMap" THEN EnvImage(dir) ELSE Emission(light.id)

\* Light::pdf_direct of EnvMap and AreaLight
PdfDirect(objs, light, dir, dist) ==
    IF light.type = "EnvMap" THEN EnvPdf(dir)
    ELSE ParallelogramPdfDirect(SurfaceOf(objs, light), dir, dist)

\* Light::sample_direct: the emission and the DirectSample it can return for
\* a point.  The sampled direction and distance are inputs of the model; the
\* environment map reports the distance INFINITY and the density of its
\* table, an area light the density of its surface.
SampleDirs == {<<1, 0, 0>>, <<-1, 0, 0>>}
SampleDists == {6, 12}

SampleDirect(objs, light) ==
    IF light.type = "EnvMap"
    THEN { [emission |-> EnvImage(dir), dir |-> dir, dist |-> INFINITY, pdf |-> EnvPdf(dir)] :
             dir \in SampleDirs }
    ELSE { [ emission |-> Emission(light.id), dir |-> ds[1], dist |-> ds[2],
             pdf |-> ParallelogramPdfDirect(SurfaceOf(objs, light), ds[1], ds[2]) ] :
             ds \in SampleDirs \X SampleDists }

(***************************************************************************)
(* estimate_radiance                                                       *)
(***************************************************************************)
\* the bounce count above which a path is cut
BOUNCE_LIMIT == 64

\* rng.gen::<f32>() returns one of 0, 1 / RngSteps, ..., (RngSteps - 1) / RngSteps
RngSteps == 4
RngValues == {Q(k, RngSteps) : k \in 0..(RngSteps - 1)}

\* `x as usize` of a non-negative fraction
AsUsize(a) == a.n \div a.d

\* (mutant) the balance heuristic in place of the power heuristic
Mis2Linear(sample_pdf, other_pdf) == QDiv(sample_pdf, QAdd(sample_pdf, other_pdf))

\* mis2
Mis2(sample_pdf, other_pdf) ==
    QDiv(QMul(sample_pdf, sample_pdf),
         QAdd(QMul(sample_pdf, sample_pdf), QMul(other_pdf, other_pdf)))

LightPickProb(nb_lights) == QDiv(QOne, Q(nb_lights, 1))

\* no scatterer has been hit on the path
NoVertex == [some |-> FALSE]

\* (mutant) a path that starts with half the weight
PathStartHalf(ray, nb_lights) ==
    [ pc |-> "loop", camera |-> ray, nb_lights |-> nb_lights,
      light_pick_prob |-> LightPickProb(nb_lights),
      path_weight |-> Thrice(Q(1, 2)), radiance |-> VQZero, ray |-> ray,
      specular_bounce |-> TRUE, last_pdf_dir |-> QOne, nb_bounces |-> 0,
      intersects |-> 0, redirects |-> 0, draws |-> 0, emitted |-> 0,
      vertex |-> NoVertex ]

\* the locals of estimate_radiance on entry of the loop.  `camera` keeps the
\* ray of the call; `intersects`, `redirects`, `draws` and `emitted` count
\* the calls of scene.intersect, the assignments of ray.origin, the calls of
\* rng.gen and the executions of the Hit::Emitter arm, and `vertex` keeps the
\* locals of the latest execution of the Hit::Scatterer arm.
PathStart(ray, nb_lights) ==
    [ pc |-> "loop", camera |-> ray, nb_lights |-> nb_lights,
      light_pick_prob |-> LightPickProb(nb_lights),
      path_weight |-> Thrice(QOne), radiance |-> VQZero, ray |-> ray,
      specular_bounce |-> TRUE, last_pdf_dir |-> QOne, nb_bounces |-> 0,
      intersects |-> 0, redirects |-> 0, draws |-> 0, emitted |-> 0,
      vertex |-> NoVertex ]

\* (mutant) the weight of the emitter arm without the test of specular_bounce
EmitterMisAlways(p, objs, light, dist) ==
    Mis2(p.last_pdf_dir,
         QMul(PdfDirect(objs, light, p.ray.direction, dist), p.light_pick_prob))

\* mis_weight of the Hit::Emitter arm
EmitterMis(p, objs, light, dist) ==
    IF ~p.specular_bounce
    THEN Mis2(p.last_pdf_dir,
              QMul(PdfDirect(objs, light, p.ray.direction, dist), p.light_pick_prob))
    ELSE QOne

\* the Hit::Emitter arm
HitEmitter(p, objs, light, dist) ==
    LET contrib == EvalDirect(light, p.ray.direction)
        mis_weight == EmitterMis(p, objs, light, dist)
    IN  [ p EXCEPT !.radiance = VQAdd(@, VQMul(VQScale(p.path_weight, mis_weight), contrib)),
                   !.intersects = @ + 1, !.emitted = @ + 1, !.pc = "done" ]

\* (mutant) the light index rounded to the nearest integer
LightIdxNearest(nb_lights, u) == AsUsize(QAdd(QMul(Q(nb_lights, 1), u), Q(1, 2)))

\* `(nb_lights as f32 * rng.gen::<f32>()) as usize`
LightIdx(nb_lights, u) == AsUsize(QMul(Q(nb_lights, 1), u))

\* direct light sampling at a scatterer (integrator.rs 48-61): every
\* (radiance it adds, number of rng.gen calls it makes) the light index and
\* the light's sample can lead to, with whether a light index was drawn
\* (`selected`), the index, and whether light.sample_direct was called
\* (`sampled`)
DirectLighting(p, tr, objs, lidx, bg, material, intersection, hit, shading_frame, local_in, cont_prob) ==
    IF IsPurelySpecular(material) \/ ~(p.nb_lights > 0)
    THEN {[add |-> VQZero, draws |-> 0, selected |-> FALSE, light_idx |-> 0, sampled |-> FALSE]}
    ELSE UNION {
        LET light_idx == LightIdx(p.nb_lights, u)
            light == GetLight(objs, lidx, bg, light_idx)
        IN  IF ~light.some
            THEN {[ add |-> VQZero, draws |-> 1, selected |-> TRUE, light_idx |-> light_idx,
                    sampled |-> FALSE ]}
            ELSE { IF SceneOccluded(tr, objs, hit, intersection.normal, s.dir, s.dist)
                   THEN [ add |-> VQZero, draws |-> 3, selected |-> TRUE,
                          light_idx |-> light_idx, sampled |-> TRUE ]
                   ELSE LET local_out == ToLocal(shading_frame, s.dir)
                            bsdf_eval == MaterialEval(material, local_in, local_out)
                            bsdf_pdf == MaterialPdf(material, local_in, local_out)
                            light_pdf == QMul(s.pdf, p.light_pick_prob)
                            mis_weight == Mis2(light_pdf, QMul(bsdf_pdf, cont_prob))
                        IN  [ add |-> VQScale(VQMul(VQMul(p.path_weight, s.emission), bsdf_eval),
                                              QDiv(mis_weight, light_pdf)),
                              draws |-> 3, selected |-> TRUE, light_idx |-> light_idx,
                              sampled |-> TRUE ]
                   : s \in SampleDirect(objs, light.val) }
        : u \in RngValues }

\* (mutant) the cut one bounce late
BounceLimitLax(nb_bounces) == nb_bounces > BOUNCE_LIMIT + 1

\* `if nb_bounces > 64`
BounceLimit(nb_bounces) == nb_bounces > BOUNCE_LIMIT

\* `cont_prob = path_weight.max_elem().min(1.0)`
ContProb(path_weight) == QMin(MaxElem(path_weight), QOne)

\* (mutant) a roulette that ends no path
RouletteEndsNever(u, cont_prob) == FALSE

\* `if rng.gen::<f32>() >= cont_prob { break; }`
RouletteEnds(u, cont_prob) == QGe(u, cont_prob)

\* (mutant) the pdf of the bsdf sample without the probability of continuing
LastPdfDirOfSample(pdf, cont_prob) == pdf

\* last_pdf_dir after `last_pdf_dir = bsdf_sample.pdf` and
\* `last_pdf_dir *= cont_prob`
LastPdfDir(pdf, cont_prob) == QMul(pdf, cont_prob)

\* (mutant) the offset of a ray that leaves on the side of the normal
EpsFront(normal, direction) == EPSILON

\* `eps = if dot(normal, ray.direction) >= 0.0 { EPSILON } else { -EPSILON }`
Eps(normal, direction) == IF Dot(normal, direction) >= 0 THEN EPSILON ELSE 0 - EPSILON

\* the Hit::Scatterer arm up to the end of the loop body (integrator.rs
\* 40-94), given what direct lighting added, the rnd.z of the bsdf sample and
\* the number u the roulette draws when cont_prob < 1
HitScatterer(p, material, intersection, hit, shading_frame, local_in, cont_prob, dl, rnd_z, u) ==
    CHOOSE res \in
        { LET normal == intersection.normal
              roulette == QLt(cont_prob, QOne)
              ends == roulette /\ RouletteEnds(u, cont_prob)
              continues == ~(bsdf_sample.weight = VQZero) /\ ~BounceLimit(p.nb_bounces) /\ ~ends
              lit == [ p EXCEPT !.radiance = VQAdd(@, dl.add),
                                !.draws = @ + dl.draws + 3,
                                !.intersects = @ + 1,
                                !.vertex = [ some |-> TRUE, material |-> material, hit |-> hit,
                                             normal |-> normal, local_in |-> local_in,
                                             cont_prob |-> cont_prob,
                                             selected |-> dl.selected,
                                             light_idx |-> dl.light_idx,
                                             sampled |-> dl.sampled,
                                             bsdf_sample |-> bsdf_sample,
                                             divided |-> continues /\ roulette ] ]
          IN  IF bsdf_sample.weight = VQZero
              THEN [lit EXCEPT !.pc = "done"]
              ELSE IF BounceLimit(p.nb_bounces)
              THEN [lit EXCEPT !.last_pdf_dir = bsdf_sample.pdf, !.pc = "done"]
              ELSE IF ends
              THEN [ lit EXCEPT !.last_pdf_dir = LastPdfDir(bsdf_sample.pdf, cont_prob),
                                !.draws = @ + 1, !.pc = "done" ]
              ELSE [ lit EXCEPT !.last_pdf_dir = LastPdfDir(bsdf_sample.pdf, cont_prob),
                                !.draws = @ + (IF roulette THEN 1 ELSE 0),
                                !.path_weight = VQMul(IF roulette THEN VQDiv(@, cont_prob) ELSE @,
                                                      bsdf_sample.weight),
                                !.specular_bounce = bsdf_sample.is_specular,
                                !.ray = [ origin |-> VAdd(hit, VScale(normal,
                                                                      Eps(normal, direction) * 2)),
                                          direction |-> direction ],
                                !.redirects = @ + 1,
                                !.nb_bounces = @ + 1 ]
          : bsdf_sample \in {MaterialSample(material, local_in, rnd_z)},
            direction \in {Normalized(ToWorld(shading_frame,
                                              MaterialSample(material, local_in, rnd_z).direction))} }
        : TRUE

(***************************************************************************)
(* The scenes and camera rays of the paths: two walls that face each other *)
(* across the gap 0 < x < 6,  and the materials and lights they carry      *)
(***************************************************************************)
\* a wall like Wall(x, y) whose normal is +x
WallFacing(x, y) == ParallelogramNew(<<x, y, 0>>, <<0, 0, 2>>, <<0, 2, 0>>)

MirrorLeft   == [id |-> 11, kind |-> "Scatterer", surface |-> WallFacing(0, 0)]
DiffuseLeft  == [id |-> 12, kind |-> "Scatterer", surface |-> WallFacing(0, 0)]
DiffuseRight == [id |-> 13, kind |-> "Scatterer", surface |-> Wall(6, 0)]
MirrorRight  == [id |-> 14, kind |-> "Scatterer", surface |-> Wall(6, 0)]
EmitterRight == [id |-> 15, kind |-> "Emitter",   surface |-> Wall(6, 0)]
GlassRight   == [id |-> 16, kind |-> "Scatterer", surface |-> Wall(6, 0)]
TintedLeft   == [id |-> 17, kind |-> "Scatterer", surface |-> WallFacing(0, 0)]
RedLeft      == [id |-> 18, kind |-> "Scatterer", surface |-> WallFacing(0, 0)]
GreenRight   == [id |-> 19, kind |-> "Scatterer", surface |-> Wall(6, 0)]
MetalLeft    == [id |-> 20, kind |-> "Scatterer", surface |-> WallFacing(0, 0)]

\* the material a scatterer carries: white mirrors, clear glass, a metal,
\* grey, red and green diffuse walls, and a diffuse wall whose albedo texture
\* holds negative values
MaterialOf(id) ==
    IF id \in {11, 14} THEN Mirror(Thrice(QOne))
    ELSE IF id = 16 THEN Dielectric(Thrice(QOne), Q(5, 3))
    ELSE IF id = 17 THEN Diffuse(Thrice(Q(-1, 2)))
    ELSE IF id = 20
    THEN Conductor(Thrice(QOne), [eta |-> Thrice(Q(3, 1)), k |-> Thrice(Q(4, 1))])
    ELSE IF id = 18 THEN Diffuse(<<Q(1, 2), QZero, QZero>>)
    ELSE IF id = 19 THEN Diffuse(<<QZero, Q(1, 2), QZero>>)
    ELSE Diffuse(Thrice(Q(1, 2)))

PathScenes ==
    { [objects |-> <<>>, background |-> TRUE],
      [objects |-> <<>>, background |-> FALSE],
      [objects |-> <<MirrorLeft, MirrorRight>>, background |-> FALSE],
      [objects |-> <<MirrorRight, MirrorLeft>>, background |-> TRUE],
      [objects |-> <<DiffuseLeft, DiffuseRight>>, background |-> FALSE],
      [objects |-> <<DiffuseLeft>>, background |-> TRUE],
      [objects |-> <<DiffuseLeft, EmitterRight>>, background |-> FALSE],
      [objects |-> <<EmitterRight, DiffuseLeft>>, background |-> TRUE],
      [objects |-> <<MirrorLeft, EmitterRight>>, background |-> FALSE],
      [objects |-> <<DiffuseLeft, GlassRight>>, background |-> TRUE],
      [objects |-> <<TintedLeft, DiffuseRight>>, background |-> FALSE],
      [objects |-> <<RedLeft, GreenRight>>, background |-> FALSE],
      [objects |-> <<MetalLeft, EmitterRight>>, background |-> FALSE] }

CameraRays ==
    { [origin |-> <<3, 1, 1>>, direction |-> d] : d \in {<<1, 0, 0>>, <<-1, 0, 0>>, <<0, 1, 0>>} }
    \cup { [origin |-> <<-1, 1, 1>>, direction |-> <<1, 0, 0>>] }

InitPath ==
    /\ \E sc \in PathScenes : SceneInit(sc.objects, sc.background)
    /\ query = NoQuery
    /\ path = NoPath
    /\ render = NoRender

\* estimate_radiance is called on a camera ray (integrator.rs 11-19)
EstimateRadiance ==
    /\ phase = "ready" /\ query = NoQuery /\ path = NoPath
    /\ \E ray \in CameraRays : path' = PathStart(ray, NbLights(light_idxs, background))
    /\ UNCHANGED <<sceneVars, query, render>>

\* an iteration of the loop whose ray hits an emitter
PathEmitter ==
    /\ phase = "ready" /\ path.pc = "loop"
    /\ \E h \in {SceneIntersect(tree, objects, background, path.ray)} :
          /\ h.some /\ h.val.hit = "Emitter"
          /\ path' = HitEmitter(path, objects, h.val.light, h.val.dist)
    /\ UNCHANGED <<sceneVars, query, render>>

\* an iteration of the loop whose ray hits nothing
PathNone ==
    /\ phase = "ready" /\ path.pc = "loop"
    /\ SceneIntersect(tree, objects, background, path.ray) = None
    /\ path' = [path EXCEPT !.intersects = @ + 1, !.pc = "done"]
    /\ UNCHANGED <<sceneVars, query, render>>

\* an iteration of the loop whose ray hits a scatterer.  The numbers drawn
\* range over RngValues where the iteration reads them: rnd.z in the sample
\* of a Dielectric, and the number of the roulette when cont_prob < 1
PathScatterer ==
    /\ phase = "ready" /\ path.pc = "loop"
    /\ \E h \in {SceneIntersect(tree, objects, background, path.ray)} :
          /\ h.some /\ h.val.hit = "Scatterer"
          /\ \E intersection \in {h.val.intersection},
                material \in {MaterialOf(h.val.material)},
                cont_prob \in {ContProb(path.path_weight)} :
             \E hit \in {PointAt(path.ray, intersection.distance)},
                shading_frame \in {FrameFromUp(intersection.normal)} :
             \E local_in \in {ToLocal(shading_frame, path.ray.direction)} :
             \E dl \in DirectLighting(path, tree, objects, light_idxs, background, material,
                                      intersection, hit, shading_frame, local_in, cont_prob),
                rnd_z \in (IF material.type = "Dielectric" THEN RngValues ELSE {QZero}),
                u \in (IF QLt(cont_prob, QOne) THEN RngValues ELSE {QZero}) :
                path' = HitScatterer(path, material, intersection, hit, shading_frame,
                                     local_in, cont_prob, dl, rnd_z, u)
    /\ UNCHANGED <<sceneVars, query, render>>

\* estimate_radiance returns path.radiance
PathReturn ==
    /\ path.pc = "done"
    /\ path' = NoPath
    /\ UNCHANGED <<sceneVars, query, render>>

PathStep == PathEmitter \/ PathNone \/ PathScatterer

NextPath == Build \/ SceneNew \/ EstimateRadiance \/ PathStep \/ PathReturn

\* the loop body is straight-line code over a finite tree: an iteration that
\* has started completes
SpecPath == InitPath /\ [][NextPath]_vars /\ WF_vars(PathStep)

(***************************************************************************)
(* Claims about estimate_radiance, under SpecPath                          *)
(***************************************************************************)
\* C5: in a scene without objects a path ends after one call of
\* scene.intersect and no call of rng.gen, with path_weight (1, 1, 1); with an
\* environment map it returns exactly envmap.eval_direct of the direction of
\* the camera ray, without one it returns zero.
C5_EmptyScene ==
    (path.pc = "done" /\ input = <<>>) =>
        /\ path.intersects = 1
        /\ path.draws = 0
        /\ path.path_weight = Thrice(QOne)
        /\ path.radiance = (IF background THEN EvalDirect(EnvMap, path.camera.direction)
                            ELSE VQZero)

C5_Witness ==
    /\ path.pc = "done" /\ input = <<>> /\ background
    /\ path.radiance = EnvImage(path.camera.direction)
    /\ path.radiance # VQZero

\* C6: an iteration whose ray hits an emitter (an area light, or the
\* environment map on a miss) adds path_weight * w * eval_direct(ray.direction)
\* to radiance and ends the path, with w = 1 after a specular bounce and
\* w = mis2(last_pdf_dir, pdf_direct(ray.direction, dist) * light_pick_prob)
\* otherwise; it is the only execution of the emitter arm on the path, it
\* draws no random number and intersects the scene once, and a path that has
\* ended does nothing but return.
C6_EmitterHit ==
    [][ /\ path.pc = "loop" =>
            /\ path.emitted = 0
            /\ \A h \in {SceneIntersect(tree, objects, background, path.ray)} :
                  (h.some /\ h.val.hit = "Emitter") =>
                      LET light == h.val.light
                          dir == path.ray.direction
                          w == IF path.specular_bounce THEN QOne
                               ELSE Mis2(path.last_pdf_dir,
                                         QMul(PdfDirect(objects, light, dir, h.val.dist),
                                              path.light_pick_prob))
                      IN  /\ path'.pc = "done"
                          /\ path'.radiance =
                                VQAdd(path.radiance,
                                      VQMul(VQScale(path.path_weight, w), EvalDirect(light, dir)))
                          /\ path'.emitted = 1
                          /\ path'.draws = path.draws
                          /\ path'.intersects = path.intersects + 1
                          /\ path'.redirects = path.redirects
        /\ path.pc = "done" => path' = NoPath
      ]_vars

\* an emitter was hit after a diffuse bounce, and weighted by mis2
C6_Witness ==
    /\ path.pc = "done" /\ path.emitted = 1
    /\ ~path.specular_bounce
    /\ path.redirects = 1
    /\ path.radiance # VQZero

\* C7: a path ends: it redirects its ray at most 65 times and calls
\* scene.intersect at most 66 times, whatever the roulette draws, and every
\* path that has entered the loop leaves it.
C7_Terminates ==
    /\ [](path.pc \in {"loop", "done"} =>
             /\ path.redirects <= 65
             /\ path.intersects <= 66
             /\ path.nb_bounces <= 65)
    /\ (path.pc = "loop") ~> (path.pc = "done")

\* a path between two white mirrors: cont_prob = 1 throughout, and the path
\* is cut by the bounce count
C7_Witness ==
    /\ path.pc = "done"
    /\ path.intersects = 66 /\ path.redirects = 65
    /\ path.path_weight = Thrice(QOne)
    /\ path.specular_bounce

(***************************************************************************)
(* The render loops: render, render_seq and render_preview_file.  A call   *)
(* of estimate_radiance is one step of a loop, and the radiance it returns *)
(* is an input of the step.                                                *)
(***************************************************************************)
\* camera.resolution() of the cameras of the model, as (width, height)
Resolutions == {<<1, 1>>, <<2, 1>>, <<1, 2>>}

\* the largest spp handed to render and render_seq
MaxSpp == 2
\* the number of frames render_preview_file is followed for
MaxFrames == 1

SPP_STEP == 16

\* what estimate_radiance returns to a loop: a finite radiance, and one
\* whose z alone is NaN
Radiances == {<<QOne, Q(1, 2), Q(2, 1)>>, <<QOne, QOne, QNaN>>}

Pixels(width, height) == (0..(width - 1)) \X (0..(height - 1))

\* the locals of a render loop when its first frame starts.  `rows[y]` is
\* the position of the closure that runs on row y: the pixel x it is at and
\* the number s of samples it has taken there.  `written` is the image a
\* step hands to write_ppm_srgb or write_ppm_raw, in flight to the file until
\* the loop goes on.  `generated[<<x, y>>][v]` counts the rays made for pixel
\* (x, y) whose radiance came back as v; `writers[i]` and `users[g]` are the
\* tasks of the running frame that have written accumulator i and advanced
\* generator g.
RenderStart(fn, res, spp) ==
    [ pc |-> "rows", fn |-> fn, width |-> res[1], height |-> res[2], spp |-> spp,
      sum_rad |-> [i \in 1..(res[1] * res[2]) |-> VQZero],
      rows |-> [y \in 0..(res[2] - 1) |-> [x |-> 0, s |-> 0]],
      frames |-> 0,
      written |-> <<>>,
      generated |-> [p \in Pixels(res[1], res[2]) |-> [v \in Radiances |-> 0]],
      writers |-> [i \in 1..(res[1] * res[2]) |-> {}],
      users |-> [g \in 0..(res[2] - 1) |-> {}] ]

\* (mutant) every row is handed the first chunk
ChunkStartZero(y, width) == 0

\* the offset in sum_rad of the y-th chunk of chunks_mut(width)
ChunkStart(y, width) == y * width

\* the task that runs the closure of row y: one task a row under
\* par_chunks_mut, the calling thread under chunks_mut
RowTask(fn, y) == IF fn = "render_seq" THEN 0 ELSE y

\* the generator the closure of row y draws from: its own `rng` in render,
\* the clone of rngs[y] in render_preview_file, the one `rng` of render_seq
RowRng(fn, y) == IF fn = "render_seq" THEN 0 ELSE y

\* sum_rad.iter().map(|&sr| sr / spp as f32), the image that is tonemapped
\* and written
Image(sum_rad, spp) == [i \in DOMAIN sum_rad |-> VQDiv(sum_rad[i], Q(spp, 1))]

\* the bound of the loop over the samples of a pixel
SamplesPerPixel(r) == IF r.fn = "render_preview_file" THEN SPP_STEP ELSE r.spp

RowDone(r, y) == r.rows[y].x = r.width
RowsDone(r) == \A y \in DOMAIN r.rows : RowDone(r, y)

\* the body of the loop over the samples, on row y, with v the radiance
\* estimate_radiance returns: p is element x of the y-th chunk of
\* sum_rad.chunks_mut(width)
AddSample(r, y, v) ==
    LET x == r.rows[y].x
        s == r.rows[y].s
        p == ChunkStart(y, r.width) + x + 1
    IN  [ r EXCEPT !.sum_rad[p] = IF ~HasNan(v) THEN VQAdd(@, v) ELSE @,
                   !.written = <<>>,
                   !.generated[<<x, y>>][v] = @ + 1,
                   !.writers[p] = @ \cup {RowTask(r.fn, y)},
                   !.users[RowRng(r.fn, y)] = @ \cup {RowTask(r.fn, y)},
                   !.rows[y] = IF s + 1 = SamplesPerPixel(r)
                               THEN [x |-> x + 1, s |-> 0]
                               ELSE [x |-> x, s |-> s + 1] ]

InitRender ==
    /\ SceneInit(<<>>, TRUE)
    /\ query = NoQuery
    /\ path = NoPath
    /\ render = NoRender

\* render(scene, camera, spp) up to its loop
Render ==
    /\ phase = "ready" /\ render = NoRender
    /\ \E res \in Resolutions, spp \in 1..MaxSpp : render' = RenderStart("render", res, spp)
    /\ UNCHANGED <<sceneVars, query, path>>

\* render_seq(scene, camera, spp) up to its loop
RenderSeq ==
    /\ phase = "ready" /\ render = NoRender
    /\ \E res \in Resolutions, spp \in 1..MaxSpp : render' = RenderStart("render_seq", res, spp)
    /\ UNCHANGED <<sceneVars, query, path>>

\* render_preview_file(scene, camera) up to its loop, with spp = 0
RenderPreviewFile ==
    /\ phase = "ready" /\ render = NoRender
    /\ \E res \in Resolutions : render' = RenderStart("render_preview_file", res, 0)
    /\ UNCHANGED <<sceneVars, query, path>>

\* one sample of one row.  The rows of render and render_preview_file run in
\* parallel, those of render_seq one after the other.
RenderSample ==
    /\ render.pc = "rows"
    /\ render.fn = "render_preview_file" => render.frames < MaxFrames
    /\ \E y \in DOMAIN render.rows :
          /\ ~RowDone(render, y)
          /\ render.fn = "render_seq" => \A z \in 0..(y - 1) : RowDone(render, z)
          /\ \E v \in Radiances : render' = AddSample(render, y, v)
    /\ UNCHANGED <<sceneVars, query, path>>

\* render and render_seq after their loop: the image is written
RenderFinish ==
    /\ render.pc = "rows" /\ render.fn # "render_preview_file"
    /\ RowsDone(render)
    /\ render' = [render EXCEPT !.written = Image(render.sum_rad, render.spp), !.pc = "done"]
    /\ UNCHANGED <<sceneVars, query, path>>

\* render_preview_file after a frame: spp grows, the image is written and
\* the next frame starts.  The loop has no exit; the model follows it for
\* MaxFrames frames.
RenderFrame ==
    /\ render.pc = "rows" /\ render.fn = "render_preview_file"
    /\ RowsDone(render)
    /\ render' = [ render EXCEPT !.spp = @ + SPP_STEP,
                                 !.written = Image(render.sum_rad, render.spp + SPP_STEP),
                                 !.writers = [i \in DOMAIN @ |-> {}],
                                 !.users = [g \in DOMAIN @ |-> {}],
                                 !.rows = [y \in DOMAIN @ |-> [x |-> 0, s |-> 0]],
                                 !.frames = @ + 1 ]
    /\ UNCHANGED <<sceneVars, query, path>>

\* render and render_seq return
RenderReturn ==
    /\ render.pc = "done"
    /\ render' = NoRender
    /\ UNCHANGED <<sceneVars, query, path>>

NextRender ==
    Build \/ SceneNew \/ Render \/ RenderSeq \/ RenderPreviewFile
    \/ RenderSample \/ RenderFinish \/ RenderFrame \/ RenderReturn

SpecRender == InitRender /\ [][NextRender]_vars

(***************************************************************************)
(* Claims about the render loops, under SpecRender                         *)
(***************************************************************************)
\* count[v] times v, summed over the radiances v of S that have no NaN
\* component
RECURSIVE SumOfNumbers(_, _)
SumOfNumbers(S, count) ==
    IF S = {} THEN VQZero
    ELSE LET v == CHOOSE w \in S : TRUE
         IN  VQAdd(IF \E k \in 1..3 : v[k] = QNaN THEN VQZero ELSE VQScale(v, Q(count[v], 1)),
                   SumOfNumbers(S \ {v}, count))

\* C10: in render, render_seq and render_preview_file the accumulator of a
\* pixel is, at every moment, the sum of the radiances without a NaN
\* component that were returned for the rays of that pixel: a radiance with a
\* NaN component is dropped, and every other is added to its own pixel.
C10_NaNDropped ==
    render.pc \in {"rows", "done"} =>
        \A p \in Pixels(render.width, render.height) :
            render.sum_rad[p[2] * render.width + p[1] + 1]
                = SumOfNumbers(Radiances, render.generated[p])

\* a frame of the preview over two rows: one pixel has dropped NaN radiances
\* and added others, and the other pixel holds a different sum
C10_Witness ==
    /\ render.pc = "rows" /\ render.fn = "render_preview_file"
    /\ render.frames = 1 /\ render.height = 2
    /\ render.generated[<<0, 0>>][<<QOne, QOne, QNaN>>] = 3
    /\ render.sum_rad[1] = <<Q(13, 1), Q(13, 2), Q(26, 1)>>
    /\ render.sum_rad[2] = <<Q(16, 1), Q(8, 1), Q(32, 1)>>

\* the number of rays counted in `count` whose radiance is in S
RECURSIVE NumberOf(_, _)
NumberOf(S, count) ==
    IF S = {} THEN 0
    ELSE LET v == CHOOSE w \in S : TRUE IN count[v] + NumberOf(S \ {v}, count)

\* the radiances that are kept: those without a NaN component
KeptRadiances == {v \in Radiances : \A k \in 1..3 : v[k] # QNaN}

\* C11: the value written for a pixel is the sum of the samples kept for it
\* divided by the number of samples kept for it (the estimator over the
\* surviving samples), not by the number of samples attempted.
C11_MeanOfKept ==
    (render.pc \in {"rows", "done"} /\ render.written # <<>>) =>
        \A p \in Pixels(render.width, render.height) :
            LET i == p[2] * render.width + p[1] + 1
            IN  render.written[i]
                    = VQDiv(render.sum_rad[i],
                            Q(NumberOf(KeptRadiances, render.generated[p]), 1))

\* what the loops write instead: the sum of the samples kept divided by the
\* number of samples attempted
C11_MeanOfAttempted ==
    (render.pc \in {"rows", "done"} /\ render.written # <<>>) =>
        \A p \in Pixels(render.width, render.height) :
            LET i == p[2] * render.width + p[1] + 1
            IN  render.written[i]
                    = VQDiv(SumOfNumbers(Radiances, render.generated[p]),
                            Q(NumberOf(Radiances, render.generated[p]), 1))

\* C12: while the rows of render and render_preview_file run in parallel, an
\* accumulator is written by no task but the one of its row, and a generator
\* is advanced by no task but the one of its row, so that no two tasks share
\* an accumulator or a generator; and no step of a render loop writes the
\* scene, its objects or its tree.
C12_RowsExclusive ==
    /\ [](render.pc \in {"rows", "done"} =>
             /\ \A i \in DOMAIN render.writers :
                   /\ Cardinality(render.writers[i]) <= 1
                   /\ render.fn # "render_seq" =>
                          render.writers[i] \subseteq {(i - 1) \div render.width}
             /\ \A g \in DOMAIN render.users :
                   /\ Cardinality(render.users[g]) <= 1
                   /\ render.fn # "render_seq" => render.users[g] \subseteq {g})
    /\ [][render.pc \in {"rows", "done"} => UNCHANGED sceneVars]_vars

\* two rows of render have run side by side: each has written its own
\* accumulator and drawn from its own generator, while the other was still
\* at work
C12_Witness ==
    /\ render.pc = "rows" /\ render.fn = "render" /\ render.height = 2
    /\ render.spp = 2
    /\ render.rows[0].s = 1 /\ render.rows[1].s = 1
    /\ render.writers = <<{0}, {1}>>
    /\ render.users[0] = {0} /\ render.users[1] = {1}

(***************************************************************************)
(* BVH::build run sequentially: build_rec on a slice s of the items, with  *)
(* the first child built to its end before the second, as the reference of *)
(* the forked build                                                        *)
(***************************************************************************)
\* one iteration of the loop over the axes on the locals a
SeqAxis(a, n, axis) ==
    LET s == SortProjectedCentroid(a.s, axis)
        buf == [i \in 1..Len(s) |-> PrefixArea(s, i - 1)]
        node_bbox == IF axis = "X" THEN UnionBbox(s, 1, Len(s)) ELSE a.node_bbox
    IN  [ s |-> s, buf |-> buf, node_bbox |-> node_bbox,
          best |-> ScanSplits(s, buf, n, SurfaceArea(node_bbox), axis, Len(s) - 1, a.best) ]

RECURSIVE SeqBuildRec(_, _, _, _)
SeqBuildRec(s, begin, end, p) ==
    LET n == end - begin
        start == [ s |-> s, buf |-> [i \in 1..Len(s) |-> 0], node_bbox |-> AABBEmpty,
                   best |-> [ best_cost |-> [nan |-> FALSE, num |-> n, den |-> 1],
                              best_axis |-> "None", best_index |-> 0 ] ]
        a == SeqAxis(SeqAxis(SeqAxis(start, n, "X"), n, "Y"), n, "Z")
        ids == {s[k].id : k \in 1..Len(s)}
    IN  IF a.best.best_axis = "None"
        THEN [ objects |-> a.s, buffer |-> a.buf,
               tree |-> (p :> [ bbox |-> a.node_bbox, kind |-> "Leaf", begin |-> begin,
                                end |-> end, split_axis |-> "None", handed |-> ids ]) ]
        ELSE LET sorted == IF a.best.best_axis # "Z"
                           THEN SortProjectedCentroid(a.s, a.best.best_axis)
                           ELSE a.s
                 k == a.best.best_index
                 c1 == SeqBuildRec(SubSeq(sorted, 1, k), begin, begin + k, 2 * p)
                 c2 == SeqBuildRec(SubSeq(sorted, k + 1, Len(sorted)), begin + k, end, 2 * p + 1)
             IN  [ objects |-> c1.objects \o c2.objects,
                   buffer |-> c1.buffer \o c2.buffer,
                   tree |-> (p :> [ bbox |-> a.node_bbox, kind |-> "Split", begin |-> begin,
                                    end |-> end, split_axis |-> a.best.best_axis,
                                    handed |-> ids ])
                            @@ c1.tree @@ c2.tree ]

\* C13: under every interleaving of the forked child builds, BVH::build ends
\* with the tree (kinds, split axes, leaf ranges, bboxes) and the item order
\* of the sequential build; the calls that run at the same time hold
\* disjoint ranges of the item array and of the buffer, and a step writes
\* the items and the buffer inside the range of one running call only.
C13_BuildDeterministic ==
    /\ []((DOMAIN tasks = {} /\ query = NoQuery /\ path = NoPath /\ render = NoRender) =>
             \A r \in {SeqBuildRec(input, 0, Len(input), 1)} :
                 tree = r.tree /\ objects = r.objects /\ buffer = r.buffer)
    /\ [](\A p, q \in DOMAIN tasks :
             p # q => (tasks[p].hi <= tasks[q].lo \/ tasks[q].hi <= tasks[p].lo))
    /\ [][(objects' # objects \/ buffer' # buffer) =>
             \E p \in DOMAIN tasks :
                 \A k \in 1..Len(objects) :
                     (k <= tasks[p].lo \/ k > tasks[p].hi) =>
                         (objects'[k] = objects[k] /\ buffer'[k] = buffer[k])]_vars

\* the two children of the root are both in the middle of their loops over
\* the axes, at different iterations, and the first has reordered its items
C13_Witness ==
    /\ DOMAIN tasks = {2, 3}
    /\ tasks[2].axis = 2 /\ tasks[3].axis = 3
    /\ tasks[2].hi - tasks[2].lo >= 2
    /\ tasks[3].hi - tasks[3].lo >= 2
    /\ SubSeq(objects, 1, tasks[2].hi) # SubSeq(input, 1, tasks[2].hi)

(***************************************************************************)
(* Calls of the material functions, kept in `query` until they return      *)
(***************************************************************************)
White == Thrice(QOne)
Iors == {QOne, Q(5, 3)}
AxisDirs == {VQOf(v) : v \in {<<0, 1, 0>>, <<0, -1, 0>>, <<1, 0, 0>>, <<-1, 0, 0>>}}
TiltedDirs ==
    { VQ(Q(4, 5), Q(3, 5), QZero), VQ(Q(4, 5), Q(-3, 5), QZero),
      VQ(Q(-4, 5), Q(3, 5), QZero), VQ(Q(-4, 5), Q(-3, 5), QZero),
      VQ(Q(3, 5), Q(4, 5), QZero), VQ(Q(3, 5), Q(-4, 5), QZero) }
MaterialDirs == AxisDirs \cup TiltedDirs
EvalMaterials ==
    {Diffuse(White)} \cup {Plastic(White, ior) : ior \in Iors}
        \cup {SmoothCoat(ior, Diffuse(White)) : ior \in Iors}
PdfMaterials ==
    EvalMaterials \cup {RoughPlastic(White, Q(5, 3), Thrice(Q(1, 2))),
                        RoughConductor(White, Thrice(Q(1, 2)))}

\* the calls on which every square root taken is a fraction
Rational(m, dir_in, dir_out) ==
    \E cos_i \in {QNeg(CosTheta(dir_in))}, cos_o \in {CosTheta(dir_out)} :
        CASE m.type = "Plastic" ->
               QLe(cos_i, QZero) \/ QLe(cos_o, QZero) \/ ReflectanceExact(QInv(m.ior), cos_i)
          [] m.type = "SmoothCoat" ->
               (QLe(cos_i, QZero) /\ QLe(cos_o, QZero))
                   \/ (ReflectanceExact(QInv(m.ior), cos_i) /\ ReflectanceExact(QInv(m.ior), cos_o))
          [] m.type = "RoughPlastic" ->
               QLe(cos_i, QZero) \/ QLe(cos_o, QZero) \/ HalfExact(dir_in, dir_out)
          [] m.type = "RoughConductor" ->
               (QLe(cos_i, QZero) /\ QLe(cos_o, QZero)) \/ HalfExact(dir_in, dir_out)
          [] OTHER -> TRUE

\* material.eval(dir_in, dir_out, uv)
CallEval ==
    /\ query = NoQuery
    /\ \E m \in EvalMaterials, dir_in \in MaterialDirs, dir_out \in MaterialDirs :
           /\ Rational(m, dir_in, dir_out)
           /\ query' = [ op |-> "eval", m |-> m, dir_in |-> dir_in, dir_out |-> dir_out,
                         result |-> Eval(m, dir_in, dir_out) ]
    /\ UNCHANGED <<sceneVars, path, render>>

\* material.pdf(dir_in, dir_out, uv)
CallPdf ==
    /\ query = NoQuery
    /\ \E m \in PdfMaterials, dir_in \in MaterialDirs, dir_out \in MaterialDirs :
           /\ Rational(m, dir_in, dir_out)
           /\ query' = [ op |-> "pdf", m |-> m, dir_in |-> dir_in, dir_out |-> dir_out,
                         result |-> Pdf(m, dir_in, dir_out) ]
    /\ UNCHANGED <<sceneVars, path, render>>

\* C14: for Diffuse, Plastic, RoughPlastic, RoughConductor and SmoothCoat,
\* eval and pdf return zero whenever either direction is on the wrong
\* hemisphere, that is whenever cos_i = -cos_theta(dir_in) <= 0 or
\* cos_o = cos_theta(dir_out) <= 0.
C14_WrongHemisphereZero ==
    (/\ query.op \in {"eval", "pdf"}
     /\ \/ QLe(QNeg(CosTheta(query.dir_in)), QZero)
        \/ QLe(CosTheta(query.dir_out), QZero))
        => query.result = (IF query.op = "eval" THEN VQZero ELSE QZero)

\* what the code guarantees: zero when BOTH directions are on the wrong side
C14_BothWrongZero ==
    (/\ query.op \in {"eval", "pdf"}
     /\ QLe(QNeg(CosTheta(query.dir_in)), QZero)
     /\ QLe(CosTheta(query.dir_out), QZero))
        => query.result = (IF query.op = "eval" THEN VQZero ELSE QZero)

Etas == {Q(3, 5), QOne, Q(5, 3)}
Cosines == {Q(-1, 1), Q(-3, 5), QZero, Q(3, 5), Q(4, 5), QOne, Q(2, 1)}
RndZ == {QZero, Q(1, 2), Q(99, 100)}

\* fresnel::dielectric_reflectance(eta, cos_i)
CallReflectance ==
    /\ query = NoQuery
    /\ \E eta \in Etas, cos_i \in Cosines :
           /\ ReflectanceExact(eta, cos_i)
           /\ query' = [ op |-> "dielectric_reflectance", eta |-> eta, cos_i |-> cos_i,
                         result |-> DielectricReflectance(eta, cos_i) ]
    /\ UNCHANGED <<sceneVars, path, render>>

\* Dielectric::sample(dir_in, uv, rnd)
CallSample ==
    /\ query = NoQuery
    /\ \E ior \in Iors, dir_in \in MaterialDirs, rnd_z \in RndZ :
           /\ ReflectanceExact(IF QGe(CosTheta(dir_in), QZero) THEN ior ELSE QInv(ior),
                               QAbs(CosTheta(dir_in)))
           /\ query' = [ op |-> "sample", m |-> Dielectric(White, ior), dir_in |-> dir_in,
                         rnd_z |-> rnd_z,
                         result |-> DielectricSample(Dielectric(White, ior), dir_in, rnd_z) ]
    /\ UNCHANGED <<sceneVars, path, render>>

\* sin_t2 = eta^2 * (1 - cos_i^2) of a call, after the clamp of cos_i
SinT2(eta, cos_i0) ==
    CHOOSE r \in { QMul(QMul(eta, eta), QSub(QOne, QMul(cos_i, cos_i)))
                   : cos_i \in {QMax(QMin(cos_i0, QOne), Q(-1, 1))} } : TRUE
\* the dielectric_reflectance call that Dielectric::sample makes
SampleEta(q) == IF QGe(CosTheta(q.dir_in), QZero) THEN q.m.ior ELSE QInv(q.m.ior)
SampleTir(q) == QGt(SinT2(SampleEta(q), QAbs(CosTheta(q.dir_in))), QOne)

\* C15: dielectric_reflectance(eta, cos_i) returns a reflectance in [0, 1]
\* for every eta > 0 and every cos_i; it reports total internal reflection
\* (reflectance 1, cos_t 0) only when eta > 1 and sin_t2 > 1; and
\* Dielectric::sample under total internal reflection always reflects, with
\* pdf 1.
C15_ReflectanceInUnit ==
    /\ query.op = "dielectric_reflectance"
           => /\ QGe(query.result[1], QZero) /\ QLe(query.result[1], QOne)
              /\ QGt(SinT2(query.eta, query.cos_i), QOne) => QGt(query.eta, QOne)
    /\ (query.op = "sample" /\ SampleTir(query))
           => /\ query.result.direction
                    = VQ(query.dir_in[1], QNeg(query.dir_in[2]), query.dir_in[3])
              /\ query.result.pdf = QOne

\* the parts of C15 that the code keeps: the early return of total internal
\* reflection needs eta > 1, and Dielectric::sample then reflects with pdf 1
C15_TirReflects ==
    /\ (query.op = "dielectric_reflectance" /\ QGt(SinT2(query.eta, query.cos_i), QOne))
           => QGt(query.eta, QOne) /\ query.result = <<QOne, QZero>>
    /\ (query.op = "sample" /\ SampleTir(query))
           => /\ query.result.direction
                    = VQ(query.dir_in[1], QNeg(query.dir_in[2]), query.dir_in[3])
              /\ query.result.pdf = QOne

\* on cos_i in (0, 1] the reflectance is in [0, 1]
C15_UnitOnPositiveCosines ==
    (query.op = "dielectric_reflectance" /\ QGt(query.cos_i, QZero))
        => QGe(query.result[1], QZero) /\ QLe(query.result[1], QOne)

C15_TirSampled ==
    query.op = "sample" /\ SampleTir(query) /\ query.rnd_z = Q(99, 100)

(***************************************************************************)
(* Piecewise-constant distributions                                        *)
(***************************************************************************)
\* the running sums cdf[i] = cdf[i - 1] + pdf[i]
RECURSIVE RunningSums(_, _)
RunningSums(pdf, n) ==
    IF n = 1 THEN <<pdf[1]>>
    ELSE CHOOSE r \in {Append(c, QAdd(c[n - 1], pdf[n])) : c \in {RunningSums(pdf, n - 1)}} : TRUE

\* make1d: the pdf and cdf it leaves in place, and the total it returns
Make1d(pdf) ==
    CHOOSE res \in
        { IF QLe(cdf[Len(cdf)], QZero)
          THEN [pdf |-> pdf, cdf |-> cdf, total |-> QZero]
          ELSE [ pdf |-> [i \in 1..Len(pdf) |-> QDiv(pdf[i], cdf[Len(cdf)])],
                 cdf |-> [i \in 1..Len(cdf) |-> QDiv(cdf[i], cdf[Len(cdf)])],
                 total |-> cdf[Len(cdf)] ]
          : cdf \in {RunningSums(pdf, Len(pdf))} } : TRUE

RECURSIVE Flatten(_, _)
Flatten(rows, n) == IF n = 0 THEN <<>> ELSE Flatten(rows, n - 1) \o rows[n]

\* Distribution2D::new
Distribution2DNew(weights, width, height) ==
    CHOOSE res \in
        { CHOOSE r \in
              { [ width |-> width, height |-> height,
                  conditional_pdf |-> Flatten([y \in 1..height |-> rows[y].pdf], height),
                  conditional_cdf |-> Flatten([y \in 1..height |-> rows[y].cdf], height),
                  marginal_pdf |-> marginal.pdf,
                  marginal_cdf |-> marginal.cdf ]
                : marginal \in {Make1d([y \in 1..height |-> rows[y].total])} } : TRUE
          : rows \in {[y \in 1..height |->
                          Make1d(SubSeq(weights, (y - 1) * width + 1, y * width))]} } : TRUE

DistSizes == {<<1, 1>>, <<2, 1>>, <<1, 2>>, <<2, 2>>}
Weights == {QZero, QOne, Q(3, 1)}

\* Distribution2D::new(weights, width, height)
CallDistribution2D ==
    /\ query = NoQuery
    /\ \E size \in DistSizes :
           \E weights \in [1..(size[1] * size[2]) -> Weights] :
               query' = [ op |-> "Distribution2D::new", weights |-> weights,
                          result |-> Distribution2DNew(weights, size[1], size[2]) ]
    /\ UNCHANGED <<sceneVars, path, render>>

RECURSIVE SumOfSeq(_, _)
SumOfSeq(s, n) == IF n = 0 THEN QZero ELSE QAdd(SumOfSeq(s, n - 1), s[n])

NonDecreasing(s) == \A i \in 1..(Len(s) - 1) : QLe(s[i], s[i + 1])
\* a pdf that sums to 1 with a non-decreasing cdf that ends at 1
Normalised(pdf, cdf) ==
    /\ SumOfSeq(pdf, Len(pdf)) = QOne
    /\ NonDecreasing(cdf)
    /\ cdf[Len(cdf)] = QOne
RowOf(s, d, y) == SubSeq(s, (y - 1) * d.width + 1, y * d.width)

\* C16: for every Distribution2D built from non-negative weights, each row's
\* conditional pdf sums to 1 and the marginal pdf sums to 1, and every
\* conditional cdf and the marginal cdf is non-decreasing with last value 1,
\* rows whose weights are all zero included.
C16_Normalised ==
    query.op = "Distribution2D::new" =>
        \E d \in {query.result} :
            /\ \A y \in 1..d.height :
                   Normalised(RowOf(d.conditional_pdf, d, y), RowOf(d.conditional_cdf, d, y))
            /\ Normalised(d.marginal_pdf, d.marginal_cdf)

\* what make1d does guarantee: rows with a positive weight are normalised,
\* rows without one are left all zero, and every cdf is non-decreasing
C16_NormalisedUnlessNull ==
    query.op = "Distribution2D::new" =>
        \E d \in {query.result} :
            /\ \A y \in 1..d.height :
                   IF \E x \in 1..d.width : RowOf(query.weights, d, y)[x] # QZero
                   THEN Normalised(RowOf(d.conditional_pdf, d, y), RowOf(d.conditional_cdf, d, y))
                   ELSE /\ RowOf(d.conditional_pdf, d, y) = [x \in 1..d.width |-> QZero]
                        /\ RowOf(d.conditional_cdf, d, y) = [x \in 1..d.width |-> QZero]
            /\ IF \E i \in 1..Len(query.weights) : query.weights[i] # QZero
               THEN Normalised(d.marginal_pdf, d.marginal_cdf)
               ELSE d.marginal_cdf = [y \in 1..d.height |-> QZero]
            /\ \A y \in 1..d.height : NonDecreasing(RowOf(d.conditional_cdf, d, y))
            /\ NonDecreasing(d.marginal_cdf)

(***************************************************************************)
(* Frame::from_up on normals in fractions                                  *)
(***************************************************************************)
VQCross(a, b) ==
    <<QSub(QMul(a[2], b[3]), QMul(a[3], b[2])),
      QSub(QMul(a[3], b[1]), QMul(a[1], b[3])),
      QSub(QMul(a[1], b[2]), QMul(a[2], b[1]))>>

\* the value under the square root that divides the tangent
FromUpSquare(normal) ==
    IF QGt(QAbs(normal[1]), QAbs(normal[2]))
    THEN QAdd(QMul(normal[1], normal[1]), QMul(normal[3], normal[3]))
    ELSE QAdd(QMul(normal[2], normal[2]), QMul(normal[3], normal[3]))

\* Frame::from_up
FromUp(normal) ==
    CHOOSE res \in
        { <<tangent, normal, VQCross(normal, tangent)>>
          : tangent \in
              { IF QGt(QAbs(normal[1]), QAbs(normal[2]))
                THEN VQDiv(VQ(normal[3], QZero, QNeg(normal[1])), QSqrt(FromUpSquare(normal)))
                ELSE VQDiv(VQ(QZero, QNeg(normal[3]), normal[2]), QSqrt(FromUpSquare(normal))) } }
        : TRUE

\* Frame::to_world and Frame::to_local
FrameToWorld(f, v) == VQAdd(VQAdd(VQScale(f[1], v[1]), VQScale(f[2], v[2])), VQScale(f[3], v[3]))
FrameToLocal(f, v) == <<VQDot(v, f[1]), VQDot(v, f[2]), VQDot(v, f[3])>>

\* non-zero normals, on and off the unit sphere
UpNormals ==
    {VQOf(n) : n \in {<<0, 1, 0>>, <<0, -1, 0>>, <<1, 0, 0>>, <<-1, 0, 0>>, <<0, 0, 1>>,
                      <<0, 0, -1>>, <<0, 2, 0>>, <<3, 0, 4>>, <<0, -4, 3>>, <<4, 3, 0>>}}
        \cup { VQ(Q(3, 5), Q(4, 5), QZero), VQ(Q(4, 5), QZero, Q(-3, 5)),
               VQ(QZero, Q(3, 5), Q(4, 5)), VQ(Q(-3, 5), QZero, Q(4, 5)),
               VQ(Q(2, 3), Q(1, 3), Q(2, 3)) }
LocalVectors == {VQOf(v) : v \in {<<1, 0, 0>>, <<0, 1, 0>>, <<0, 0, 1>>, <<1, 2, 3>>, <<-2, 1, 0>>}}
                    \cup {VQ(Q(1, 2), Q(-1, 3), QOne)}

\* Frame::from_up(normal), then to_local(to_world(v))
CallFromUp ==
    /\ query = NoQuery
    /\ \E normal \in UpNormals, v \in LocalVectors :
           /\ QExact(FromUpSquare(normal))
           /\ \E f \in {FromUp(normal)} :
                  query' = [ op |-> "from_up", normal |-> normal, v |-> v, frame |-> f,
                             round_trip |-> FrameToLocal(f, FrameToWorld(f, v)) ]
    /\ UNCHANGED <<sceneVars, path, render>>

Orthogonal(f) ==
    /\ VQDot(f[1], f[2]) = QZero
    /\ VQDot(f[1], f[3]) = QZero
    /\ VQDot(f[2], f[3]) = QZero
\* a is b scaled by a positive number
AlongPlus(a, b) == VQCross(a, b) = VQZero /\ QGt(VQDot(a, b), QZero)

\* C17: for every non-zero normal n, from_up(n) is a right-handed orthogonal
\* basis with Y = n: tangent, n and bitangent are mutually orthogonal, the
\* tangent's divisor is non-zero, cross(X axis, Y axis) points along the
\* +Z axis, and to_local(to_world(v)) = v.
C17_RightHanded ==
    query.op = "from_up" =>
        /\ query.frame[2] = query.normal
        /\ Orthogonal(query.frame)
        /\ QSqrt(FromUpSquare(query.normal)) # QZero
        /\ AlongPlus(VQCross(query.frame[1], query.frame[2]), query.frame[3])
        /\ query.round_trip = query.v

\* what from_up builds: an orthogonal basis with Y = n and a non-zero
\* divisor, in which cross(Y axis, X axis) is the Z axis, so that
\* cross(X axis, Y axis) points along -Z; on unit normals the round trip
\* returns v
C17_LeftHanded ==
    query.op = "from_up" =>
        /\ query.frame[2] = query.normal
        /\ Orthogonal(query.frame)
        /\ QSqrt(FromUpSquare(query.normal)) # QZero
        /\ VQCross(query.frame[2], query.frame[1]) = query.frame[3]
        /\ AlongPlus(VQCross(query.frame[1], query.frame[2]), VQNeg(query.frame[3]))
        /\ VQDot(query.normal, query.normal) = QOne => query.round_trip = query.v

(***************************************************************************)
(* Mesh construction: arrays hold the names of their elements, and an      *)
(* index k of the code is position k + 1 here                              *)
(***************************************************************************)
Panic(msg) == [ok |-> FALSE, panic |-> msg]
InBounds(k, s) == k + 1 \in 1..Len(s)

\* Mesh::new: BVH::build and compute_edges index `vertices` with the three
\* indices of every triangle; nothing indexes `normals` or `uvs`
MeshNew(vertices, normals, uvs, triangles) ==
    IF Len(normals) = 0 THEN Panic("Missing normals")
    ELSE IF \E i \in 1..Len(triangles), k \in 1..3 : ~InBounds(triangles[i][k], vertices)
         THEN Panic("index out of bounds")
         ELSE [ ok |-> TRUE,
                mesh |-> [ vertices |-> vertices, normals |-> normals, uvs |-> uvs,
                           triangles |-> triangles ] ]

\* the loops of create_mesh over the first n corners of the triangles:
\* keys[idx + 1] is the (vidx, nidx, uidx) that vertex_map sends to idx
RECURSIVE CreateCorners(_, _, _, _, _)
CreateCorners(vertices, normals, uvs, corners, n) ==
    IF n = 0 THEN [failed |-> FALSE, keys |-> <<>>, idxs |-> <<>>]
    ELSE CHOOSE res \in
             { IF s.failed THEN s
               ELSE IF \E idx \in 1..Len(s.keys) : s.keys[idx] = corners[n]
                    THEN [s EXCEPT !.idxs = Append(@, (CHOOSE idx \in 1..Len(s.keys) :
                                                           s.keys[idx] = corners[n]) - 1)]
                    ELSE IF /\ InBounds(corners[n][1], vertices)
                            /\ InBounds(corners[n][2], normals)
                            /\ InBounds(corners[n][3], uvs)
                         THEN [s EXCEPT !.keys = Append(@, corners[n]),
                                        !.idxs = Append(@, Len(s.keys))]
                         ELSE [s EXCEPT !.failed = TRUE]
               : s \in {CreateCorners(vertices, normals, uvs, corners, n - 1)} } : TRUE

\* the corners (vidx, nidx, uidx) of the obj triangles, in the order visited
RECURSIVE Corners(_, _)
Corners(triangles, n) ==
    IF n = 0 THEN <<>>
    ELSE Corners(triangles, n - 1)
             \o [i \in 1..3 |-> <<triangles[n].vidxs[i], triangles[n].nidxs[i], triangles[n].uidxs[i]>>]

\* create_mesh
CreateMesh(vertices, normals, uvs, triangles) ==
    CHOOSE res \in
        { IF s.failed THEN Panic("index out of bounds")
          ELSE MeshNew([k \in 1..Len(s.keys) |-> vertices[s.keys[k][1] + 1]],
                       [k \in 1..Len(s.keys) |-> normals[s.keys[k][2] + 1]],
                       [k \in 1..Len(s.keys) |-> uvs[s.keys[k][3] + 1]],
                       [t \in 1..Len(triangles) |->
                           <<s.idxs[3 * t - 2], s.idxs[3 * t - 1], s.idxs[3 * t]>>])
          : s \in {CreateCorners(vertices, normals, uvs, Corners(triangles, Len(triangles)),
                                 3 * Len(triangles))} } : TRUE

\* Mesh::intersect when the ray hits triangle i first: it reads the normals
\* and the uvs of the three corners
MeshIntersectHit(mesh, i) ==
    IF \A k \in 1..3 : /\ InBounds(mesh.triangles[i + 1][k], mesh.normals)
                       /\ InBounds(mesh.triangles[i + 1][k], mesh.uvs)
    THEN [ok |-> TRUE, hit |-> i]
    ELSE Panic("index out of bounds")

Array(name, n) == [k \in 1..n |-> <<name, k - 1>>]
ArrayLens == 0..3
MeshTriangles == {<<>>, <<<<0, 1, 2>>>>, <<<<0, 0, 1>>>>, <<<<0, 1, 2>>, <<2, 1, 3>>>>}
ObjTriangles ==
    { [vidxs |-> v, nidxs |-> n, uidxs |-> u] :
          v \in {<<0, 1, 2>>, <<0, 1, 1>>}, n \in {<<0, 0, 0>>, <<0, 1, 2>>},
          u \in {<<0, 0, 0>>, <<0, 1, 1>>} }
ObjFaces == {<<t>> : t \in ObjTriangles} \cup {<<t1, t2>> : t1 \in ObjTriangles, t2 \in ObjTriangles}

\* Mesh::new(vertices, normals, uvs, triangles)
CallMeshNew ==
    /\ query = NoQuery
    /\ \E nv \in ArrayLens, nn \in ArrayLens, nu \in ArrayLens, triangles \in MeshTriangles :
           query' = [ op |-> "Mesh::new", normals |-> nn,
                      result |-> MeshNew(Array("v", nv), Array("vn", nn), Array("vt", nu),
                                         triangles) ]
    /\ UNCHANGED <<sceneVars, path, render>>

\* create_mesh(&vertices, &normals, &uvs, &triangles), which obj::load calls
\* with at least one triangle
CallCreateMesh ==
    /\ query = NoQuery
    /\ \E nv \in {2, 3}, nn \in {1, 3}, nu \in {1, 2}, triangles \in ObjFaces :
           query' = [ op |-> "create_mesh", normals |-> nn,
                      result |-> CreateMesh(Array("v", nv), Array("vn", nn), Array("vt", nu),
                                            triangles) ]
    /\ UNCHANGED <<sceneVars, path, render>>

\* mesh.intersect(ray) on the mesh just constructed, for a ray that hits
\* triangle i
CallMeshIntersect ==
    /\ query.op \in {"Mesh::new", "create_mesh"}
    /\ query.result.ok
    /\ \E i \in 0..(Len(query.result.mesh.triangles) - 1) :
           query' = [ op |-> "Mesh::intersect", via |-> query.op, mesh |-> query.result.mesh,
                      result |-> MeshIntersectHit(query.result.mesh, i) ]
    /\ UNCHANGED <<sceneVars, path, render>>

\* |normals| = |vertices| = |uvs| and every index is a slot of all three
MeshInvariant(mesh) ==
    /\ Len(mesh.normals) = Len(mesh.vertices)
    /\ Len(mesh.uvs) = Len(mesh.vertices)
    /\ \A i \in 1..Len(mesh.triangles), k \in 1..3 :
           /\ InBounds(mesh.triangles[i][k], mesh.vertices)
           /\ InBounds(mesh.triangles[i][k], mesh.normals)
           /\ InBounds(mesh.triangles[i][k], mesh.uvs)

\* C18: every Mesh that Mesh::new or create_mesh constructs has
\* |normals| = |vertices| = |uvs| and only indices valid in all three
\* arrays, so Mesh::intersect never indexes out of bounds; and a mesh with
\* no normals is rejected at construction.
C18_MeshInvariant ==
    /\ (query.op \in {"Mesh::new", "create_mesh"} /\ query.result.ok)
           => MeshInvariant(query.result.mesh)
    /\ query.op = "Mesh::intersect" => query.result.ok
    /\ (query.op \in {"Mesh::new", "create_mesh"} /\ query.normals = 0) => ~query.result.ok

\* what holds: create_mesh builds meshes with the invariant, on which
\* intersect stays in bounds; Mesh::new rejects empty normals and indices
\* outside `vertices`
C18_CreateMeshInvariant ==
    /\ (query.op = "create_mesh" /\ query.result.ok) => MeshInvariant(query.result.mesh)
    /\ (query.op = "Mesh::intersect" /\ query.via = "create_mesh") => query.result.ok
    /\ (query.op = "Mesh::new" /\ query.normals = 0) => ~query.result.ok
    /\ (query.op = "Mesh::new" /\ query.result.ok)
           => \A i \in 1..Len(query.result.mesh.triangles), k \in 1..3 :
                  InBounds(query.result.mesh.triangles[i][k], query.result.mesh.vertices)

(***************************************************************************)
(* The three surface primitives under Scene::new                           *)
(***************************************************************************)
SphereNew(radius, position) == [shape |-> "Sphere", radius |-> radius, position |-> position]
\* Disk::new, for a normal along an axis
DiskNew(center, normal, radius) ==
    [ shape |-> "Disk", center |-> center, normal |-> normal, radius |-> radius,
      u_axis |-> Normalized(<<normal[2], normal[3], 0 - normal[1]>>),
      v_axis |-> Cross(Normalized(<<normal[2], normal[3], 0 - normal[1]>>), normal) ]
Shaped(s) == [shape |-> "Parallelogram", surface |-> s]

\* Surface::aabb of Sphere, Parallelogram and Disk; unimplemented!() panics
SurfaceAabb(s) ==
    CASE s.shape = "Sphere" ->
           [ ok |-> TRUE,
             aabb |-> [ min |-> VAdd(s.position, Thrice(0 - s.radius)),
                        max |-> VAdd(s.position, Thrice(s.radius)) ] ]
      [] s.shape = "Parallelogram" -> [ok |-> TRUE, aabb |-> ParallelogramAabb(s.surface)]
      [] s.shape = "Disk" -> Panic("not yet implemented")

\* Scene::new: build_rec unions item_bbox(t) = o.aabb() over all the items
\* before it looks for a split, so the root's bbox is the first thing known
RECURSIVE SceneBbox(_, _)
SceneBbox(surfaces, n) ==
    IF n = 0 THEN [ok |-> TRUE, aabb |-> AABBEmpty]
    ELSE CHOOSE res \in
             { IF ~rest.ok THEN rest
               ELSE IF ~box.ok THEN box
                    ELSE [ok |-> TRUE, aabb |-> AABBUnion(rest.aabb, box.aabb)]
               : rest \in {SceneBbox(surfaces, n - 1)}, box \in {SurfaceAabb(surfaces[n])} } : TRUE

Primitives ==
    {SphereNew(r, p) : r \in {1, 2}, p \in {<<0, 0, 0>>, <<4, 0, 0>>}}
        \cup {Shaped(Wall(0, 0)), Shaped(Floor(12, 0))}
        \cup {DiskNew(c, n, 1) : c \in {<<0, 0, 0>>, <<0, 4, 0>>}, n \in {<<0, 1, 0>>, <<1, 0, 0>>}}

\* surface.aabb()
CallAabb ==
    /\ query = NoQuery
    /\ \E s \in Primitives :
           query' = [op |-> "Surface::aabb", surfaces |-> <<s>>, result |-> SurfaceAabb(s)]
    /\ UNCHANGED <<sceneVars, path, render>>

\* Scene::new(background, objects) on one or two objects
CallSceneNew ==
    /\ query = NoQuery
    /\ \E surfaces \in {<<s>> : s \in Primitives}
                           \cup {<<s1, s2>> : s1 \in Primitives, s2 \in Primitives} :
           query' = [ op |-> "Scene::new", surfaces |-> surfaces,
                      result |-> SceneBbox(surfaces, Len(surfaces)) ]
    /\ UNCHANGED <<sceneVars, path, render>>

HasDisk(surfaces) == \E i \in 1..Len(surfaces) : surfaces[i].shape = "Disk"

\* C19: Sphere, Parallelogram and Disk each implement aabb(), which returns
\* a bounding box without failing, so Scene::new succeeds for a scene
\* containing any of the three primitives.
C19_AabbSucceeds ==
    query.op \in {"Surface::aabb", "Scene::new"} => query.result.ok

\* aabb() and Scene::new fail exactly on the scenes that hold a Disk
C19_AabbFailsOnDisk ==
    query.op \in {"Surface::aabb", "Scene::new"}
        => (query.result.ok <=> ~HasDisk(query.surfaces))

(***************************************************************************)
(* Texture::Checker                                                        *)
(***************************************************************************)
\* `x as i32` for a finite x within the range of i32: the fraction is dropped,
\* rounding toward zero
AsI32(x) == IF x.n >= 0 THEN x.n \div x.d ELSE 0 - ((0 - x.n) \div x.d)
\* f32::floor, rounding toward minus infinity
QFloor(x) == x.n \div x.d
\* (a ^ b) & 1 on two's complement integers: the low bits differ
XorLowBit(a, b) == ((a % 2) + (b % 2)) % 2

Checker(on_color, off_color, resolution) ==
    [type |-> "Checker", on_color |-> on_color, off_color |-> off_color, resolution |-> resolution]

\* Texture::eval of a Checker
TextureEval(t, uv) ==
    CHOOSE res \in
        { IF XorLowBit(ui, vi) # 0 THEN t.on_color ELSE t.off_color
          : ui \in {AsI32(QMul(t.resolution[1], uv[1]))},
            vi \in {AsI32(QMul(t.resolution[2], uv[2]))} } : TRUE

Black == VQZero
CheckerResolutions == {<<QOne, QOne>>, <<Q(2, 1), Q(2, 1)>>, <<Q(2, 1), Q(3, 1)>>}
TextureCoords ==
    {Q(-3, 2), Q(-1, 1), Q(-1, 2), Q(-1, 4), QZero, Q(1, 4), Q(1, 2), QOne, Q(3, 2)}

\* texture.eval((u, v))
CallTextureEval ==
    /\ query = NoQuery
    /\ \E resolution \in CheckerResolutions, u \in TextureCoords, v \in TextureCoords :
           query' = [ op |-> "Texture::eval", resolution |-> resolution, uv |-> <<u, v>>,
                      result |-> TextureEval(Checker(White, Black, resolution), <<u, v>>) ]
    /\ UNCHANGED <<sceneVars, path, render>>

\* C20: for every (u, v), negative coordinates included, a Checker evaluates
\* to on_color iff (floor(res_u * u) XOR floor(res_v * v)) & 1 = 1 and to
\* off_color otherwise, floor rounding toward minus infinity.
C20_CheckerFloor ==
    query.op = "Texture::eval" =>
        (query.result = White
            <=> XorLowBit(QFloor(QMul(query.resolution[1], query.uv[1])),
                          QFloor(QMul(query.resolution[2], query.uv[2]))) = 1)

\* the same where neither product is a negative non-integer, which is where
\* rounding toward zero and floor agree
C20_CheckerFloorWhereTruncIsFloor ==
    (/\ query.op = "Texture::eval"
     /\ \A k \in 1..2 : \E x \in {QMul(query.resolution[k], query.uv[k])} : x.n >= 0 \/ x.d = 1)
        => (query.result = White
                <=> XorLowBit(QFloor(QMul(query.resolution[1], query.uv[1])),
                              QFloor(QMul(query.resolution[2], query.uv[2]))) = 1)

(***************************************************************************)
(* Mat4: row-major 4x4 matrices of fractions; element k of the code's      *)
(* array is position k + 1 here                                            *)
(***************************************************************************)
Mat4Of(rows) == [k \in 1..16 |-> Q(rows[((k - 1) \div 4) + 1][((k - 1) % 4) + 1], 1)]
Mat4Identity == Mat4Of(<<<<1, 0, 0, 0>>, <<0, 1, 0, 0>>, <<0, 0, 1, 0>>, <<0, 0, 0, 1>>>>)
Mat4Scale(v) == Mat4Of(<<<<v[1], 0, 0, 0>>, <<0, v[2], 0, 0>>, <<0, 0, v[3], 0>>, <<0, 0, 0, 1>>>>)
Mat4Translate(v) == Mat4Of(<<<<1, 0, 0, v[1]>>, <<0, 1, 0, v[2]>>, <<0, 0, 1, v[3]>>, <<0, 0, 0, 1>>>>)

\* a[i] * a[j] * a[k], and the sum of six such terms
Prod3(a, i, j, k) == QMul(QMul(a[i + 1], a[j + 1]), a[k + 1])
Sum6(t) == QAdd(QAdd(QAdd(QAdd(QAdd(t[1], t[2]), t[3]), t[4]), t[5]), t[6])

\* the sixteen entries inv[0..15] that Mat4::inverse computes before scaling
Mat4Cofactors(a) ==
    <<      Sum6(<<Prod3(a, 5, 10, 15), QNeg(Prod3(a, 5, 11, 14)), QNeg(Prod3(a, 9, 6, 15)),
             Prod3(a, 9, 7, 14), Prod3(a, 13, 6, 11), QNeg(Prod3(a, 13, 7, 10))>>),
      Sum6(<<QNeg(Prod3(a, 1, 10, 15)), Prod3(a, 1, 11, 14), Prod3(a, 9, 2, 15),
             QNeg(Prod3(a, 9, 3, 14)), QNeg(Prod3(a, 13, 2, 11)), Prod3(a, 13, 3, 10)>>),
      Sum6(<<Prod3(a, 1, 6, 15), QNeg(Prod3(a, 1, 7, 14)), QNeg(Prod3(a, 5, 2, 15)),
             Prod3(a, 5, 3, 14), Prod3(a, 13, 2, 7), QNeg(Prod3(a, 13, 3, 6))>>),
      Sum6(<<QNeg(Prod3(a, 1, 6, 11)), Prod3(a, 1, 7, 10), Prod3(a, 5, 2, 11),
             QNeg(Prod3(a, 5, 3, 10)), QNeg(Prod3(a, 9, 2, 7)), Prod3(a, 9, 3, 6)>>),
      Sum6(<<QNeg(Prod3(a, 4, 10, 15)), Prod3(a, 4, 11, 14), Prod3(a, 8, 6, 15),
             QNeg(Prod3(a, 8, 7, 14)), QNeg(Prod3(a, 12, 6, 11)), Prod3(a, 12, 7, 10)>>),
      Sum6(<<Prod3(a, 0, 10, 15), QNeg(Prod3(a, 0, 11, 14)), QNeg(Prod3(a, 8, 2, 15)),
             Prod3(a, 8, 3, 14), Prod3(a, 12, 2, 11), QNeg(Prod3(a, 12, 3, 10))>>),
      Sum6(<<QNeg(Prod3(a, 0, 6, 15)), Prod3(a, 0, 7, 14), Prod3(a, 4, 2, 15),
             QNeg(Prod3(a, 4, 3, 14)), QNeg(Prod3(a, 12, 2, 7)), Prod3(a, 12, 3, 6)>>),
      Sum6(<<Prod3(a, 0, 6, 11), QNeg(Prod3(a, 0, 7, 10)), QNeg(Prod3(a, 4, 2, 11)),
             Prod3(a, 4, 3, 10), Prod3(a, 8, 2, 7), QNeg(Prod3(a, 8, 3, 6))>>),
      Sum6(<<Prod3(a, 4, 9, 15), QNeg(Prod3(a, 4, 11, 13)), QNeg(Prod3(a, 8, 5, 15)),
             Prod3(a, 8, 7, 13), Prod3(a, 12, 5, 11), QNeg(Prod3(a, 12, 7, 9))>>),
      Sum6(<<QNeg(Prod3(a, 0, 9, 15)), Prod3(a, 0, 11, 13), Prod3(a, 8, 1, 15),
             QNeg(Prod3(a, 8, 3, 13)), QNeg(Prod3(a, 12, 1, 11)), Prod3(a, 12, 3, 9)>>),
      Sum6(<<Prod3(a, 0, 5, 15), QNeg(Prod3(a, 0, 7, 13)), QNeg(Prod3(a, 4, 1, 15)),
             Prod3(a, 4, 3, 13), Prod3(a, 12, 1, 7), QNeg(Prod3(a, 12, 3, 5))>>),
      Sum6(<<QNeg(Prod3(a, 0, 5, 11)), Prod3(a, 0, 7, 9), Prod3(a, 4, 1, 11),
             QNeg(Prod3(a, 4, 3, 9)), QNeg(Prod3(a, 8, 1, 7)), Prod3(a, 8, 3, 5)>>),
      Sum6(<<QNeg(Prod3(a, 4, 9, 14)), Prod3(a, 4, 10, 13), Prod3(a, 8, 5, 14),
             QNeg(Prod3(a, 8, 6, 13)), QNeg(Prod3(a, 12, 5, 10)), Prod3(a, 12, 6, 9)>>),
      Sum6(<<Prod3(a, 0, 9, 14), QNeg(Prod3(a, 0, 10, 13)), QNeg(Prod3(a, 8, 1, 14)),
             Prod3(a, 8, 2, 13), Prod3(a, 12, 1, 10), QNeg(Prod3(a, 12, 2, 9))>>),
      Sum6(<<QNeg(Prod3(a, 0, 5, 14)), Prod3(a, 0, 6, 13), Prod3(a, 4, 1, 14),
             QNeg(Prod3(a, 4, 2, 13)), QNeg(Prod3(a, 12, 1, 6)), Prod3(a, 12, 2, 5)>>),
      Sum6(<<Prod3(a, 0, 5, 10), QNeg(Prod3(a, 0, 6, 9)), QNeg(Prod3(a, 4, 1, 10)),
             Prod3(a, 4, 2, 9), Prod3(a, 8, 1, 6), QNeg(Prod3(a, 8, 2, 5))>>) >>

\* det = a[0] * inv[0] + a[1] * inv[4] + a[2] * inv[8] + a[3] * inv[12]
Mat4Det(a, inv) ==
    QAdd(QAdd(QAdd(QMul(a[1], inv[1]), QMul(a[2], inv[5])), QMul(a[3], inv[9])), QMul(a[4], inv[13]))

\* (mutant) the entries without the division by det
Mat4InverseUnscaled(a) == Mat4Cofactors(a)

\* Mat4::inverse
Mat4Inverse(a) ==
    CHOOSE res \in
        { CHOOSE r \in { [k \in 1..16 |-> QMul(inv[k], inv_det)]
                         : inv_det \in {QDiv(QOne, Mat4Det(a, inv))} } : TRUE
          : inv \in {Mat4Cofactors(a)} } : TRUE

\* Mul for Mat4
Mat4Mul(a, b) ==
    [ k \in 1..16 |->
        CHOOSE r \in
            { QAdd(QAdd(QAdd(QMul(a[i * 4 + 1], b[t + 1]), QMul(a[i * 4 + 2], b[4 + t + 1])),
                        QMul(a[i * 4 + 3], b[8 + t + 1])), QMul(a[i * 4 + 4], b[12 + t + 1]))
              : i \in {(k - 1) \div 4}, t \in {(k - 1) % 4} } : TRUE ]

\* Mat4::transform_point and Mat4::transform_vector; a[(i, j)] is a[4 i + j]
TransformPoint(a, p) ==
    [ i \in 1..3 |->
        QAdd(QAdd(QAdd(QMul(a[4 * (i - 1) + 1], p[1]), QMul(a[4 * (i - 1) + 2], p[2])),
                  QMul(a[4 * (i - 1) + 3], p[3])), a[4 * (i - 1) + 4]) ]
TransformVector(a, p) ==
    [ i \in 1..3 |->
        QAdd(QAdd(QMul(a[4 * (i - 1) + 1], p[1]), QMul(a[4 * (i - 1) + 2], p[2])),
             QMul(a[4 * (i - 1) + 3], p[3])) ]

Translations == {<<1, 2, 3>>, <<-2, 0, 5>>}
Matrices ==
    {Mat4Identity} \cup {Mat4Translate(v) : v \in Translations}
        \cup {Mat4Scale(v) : v \in {<<2, 3, 4>>, <<1, -1, 2>>}}
        \cup {Mat4Mul(Mat4Translate(v), Mat4Scale(<<2, 1, -3>>)) : v \in Translations}
        \cup { Mat4Of(<<<<2, 1, 0, 3>>, <<0, 1, 4, -1>>, <<1, 0, 1, 2>>, <<0, 0, 0, 1>>>>),
               Mat4Of(<<<<1, 2, 0, 1>>, <<0, 1, 3, 0>>, <<2, 0, 1, 1>>, <<1, 1, 0, 2>>>>),
               Mat4Of(<<<<0, 0, 1, 0>>, <<1, 0, 0, 0>>, <<0, 0, 0, 1>>, <<0, 1, 0, 0>>>>),
               Mat4Of(<<<<1, 2, 3, 4>>, <<5, 6, 7, 8>>, <<9, 10, 11, 12>>, <<13, 14, 15, 16>>>>) }
MatPoints == {VQOf(p) : p \in {<<0, 0, 0>>, <<1, 0, 0>>, <<1, 2, 3>>, <<-1, 4, 2>>}}
                 \cup {VQ(Q(1, 2), Q(-1, 3), QOne)}

\* m.inverse() on a matrix with det != 0 (the debug_assert of the code), its
\* two products with m, and a point sent through m and back
CallInverse ==
    /\ query = NoQuery
    /\ \E m \in Matrices, p \in MatPoints :
           /\ Mat4Det(m, Mat4Cofactors(m)) # QZero
           /\ \E inv \in {Mat4Inverse(m)} :
                  query' = [ op |-> "Mat4::inverse", m |-> m, inv |-> inv, p |-> p,
                             left |-> Mat4Mul(inv, m), right |-> Mat4Mul(m, inv),
                             back |-> TransformPoint(inv, TransformPoint(m, p)),
                             vector |-> TransformVector(m, p) ]
    /\ UNCHANGED <<sceneVars, path, render>>

\* C21: Mat4::inverse is a true inverse: M * M.inverse() = M.inverse() * M =
\* identity for every invertible M, the inverse of the identity is the
\* identity, a point sent through a translation and its inverse comes back,
\* and transform_vector ignores the translation.
C21_TrueInverse ==
    query.op = "Mat4::inverse" =>
        /\ query.left = Mat4Identity
        /\ query.right = Mat4Identity
        /\ query.m = Mat4Identity => query.inv = Mat4Identity
        /\ SubSeq(query.m, 13, 16) = SubSeq(Mat4Identity, 13, 16) => query.back = query.p
        /\ (\E v \in Translations : query.m = Mat4Translate(v)) => query.vector = query.p

C21_Witness ==
    /\ query.op = "Mat4::inverse"
    /\ query.m = Mat4Mul(Mat4Translate(<<1, 2, 3>>), Mat4Scale(<<2, 1, -3>>))
    /\ query.p = VQOf(<<1, 2, 3>>)
    /\ query.inv # query.m

(***************************************************************************)
(* Claims about the vertices of a path, under SpecPath                     *)
(***************************************************************************)
\* C22: a light index is drawn and a light is sampled only at a vertex whose
\* material is not purely specular and only when nb_lights > 0; the index
\* drawn, and the index every number of [0, 1) gives, lies in
\* 0 .. nb_lights - 1 and get_light yields a light for it; and when
\* nb_lights = 0 neither of the two computations that read light_pick_prob
\* (the weight of the Hit::Emitter arm and the light's pdf of direct
\* lighting) is executed.
C22_LightSelection ==
    path.pc \in {"loop", "done"} =>
        /\ path.nb_lights = NbLights(light_idxs, background)
        /\ path.nb_lights > 0 =>
              \A u \in RngValues :
                  /\ LightIdx(path.nb_lights, u) \in 0..(path.nb_lights - 1)
                  /\ GetLight(objects, light_idxs, background, LightIdx(path.nb_lights, u)).some
        /\ path.nb_lights = 0 =>
              /\ path.emitted = 0
              /\ path.vertex.some => (~path.vertex.selected /\ ~path.vertex.sampled)
        /\ path.vertex.some =>
              /\ (path.vertex.selected \/ path.vertex.sampled) =>
                    (~IsPurelySpecular(path.vertex.material) /\ path.nb_lights > 0)
              /\ path.vertex.selected =>
                    /\ path.vertex.light_idx \in 0..(path.nb_lights - 1)
                    /\ path.vertex.sampled

\* the second of two lights was drawn and sampled at a diffuse vertex
C22_Witness ==
    /\ path.pc \in {"loop", "done"}
    /\ path.nb_lights = 2
    /\ path.vertex.some /\ path.vertex.selected /\ path.vertex.sampled
    /\ path.vertex.light_idx = 1
    /\ path.vertex.material.type = "Diffuse"

\* a diffuse vertex of a scene without lights: no light is drawn
C22_NoLights ==
    /\ path.pc \in {"loop", "done"}
    /\ path.nb_lights = 0
    /\ path.vertex.some /\ path.vertex.material.type = "Diffuse"

\* C23: at every vertex of every path the probability of continuing,
\* cont_prob = min(1, max component of path_weight), lies in [0, 1], whatever
\* the weights of the bsdf samples before it, negative ones included.
C23_ContProbInUnit ==
    (path.pc \in {"loop", "done"} /\ path.vertex.some) =>
        /\ QLe(QZero, path.vertex.cont_prob)
        /\ QLe(path.vertex.cont_prob, QOne)

\* what the code does bound: cont_prob is the ContProb of the path_weight
\* that entered the vertex, it is at most 1, and it is in [0, 1] where that
\* weight has a component that is not negative
C23_ContProbAtMostOne ==
    [][ (path.pc = "loop" /\ path'.pc \in {"loop", "done"} /\ path'.vertex.some
            /\ path'.draws > path.draws) =>
            /\ path'.vertex.cont_prob = ContProb(path.path_weight)
            /\ QLe(path'.vertex.cont_prob, QOne)
            /\ (\E k \in 1..3 : QLe(QZero, path.path_weight[k])) =>
                   QLe(QZero, path'.vertex.cont_prob)
      ]_vars

\* a vertex reached with a path_weight whose components are all negative
C23_NegativeContProb ==
    /\ path.pc = "done" /\ path.vertex.some
    /\ path.vertex.cont_prob = Q(-1, 2)
    /\ path.path_weight = Thrice(Q(-1, 2))

\* C24: after a scattering event the origin of the ray is
\* hit + 2 * EPSILON * s * normal, with s = 1 when dot(normal, new direction)
\* >= 0 and s = -1 otherwise, so that dot(origin - hit, new direction) >= 0:
\* a reflected ray starts on the side it leaves towards, a refracted ray on
\* the far side.
C24_OriginOnLeavingSide ==
    [][ (path.pc = "loop" /\ path'.pc = "loop" /\ path'.redirects = path.redirects + 1) =>
            LET hit == path'.vertex.hit
                normal == path'.vertex.normal
                dir == path'.ray.direction
                s == IF Dot(normal, dir) >= 0 THEN 1 ELSE -1
            IN  /\ hit = PointAt(path.ray, SceneIntersect(tree, objects, background,
                                                          path.ray).val.intersection.distance)
                /\ path'.ray.origin = VAdd(hit, VScale(normal, 2 * EPSILON * s))
                /\ Dot(VSub(path'.ray.origin, hit), dir) >= 0
                /\ Dot(normal, dir) # 0 => Dot(VSub(path'.ray.origin, hit), dir) > 0
      ]_vars

\* a ray refracted through the glass: it leaves against the normal and
\* starts behind the pane
C24_Witness ==
    /\ path.pc = "loop" /\ path.redirects = 1
    /\ path.vertex.some /\ path.vertex.material.type = "Dielectric"
    /\ Dot(path.vertex.normal, path.ray.direction) < 0
    /\ path.ray.origin = VAdd(path.vertex.hit, VScale(path.vertex.normal, 0 - 2 * EPSILON))

\* a ray reflected by the glass starts in front of the pane
C24_Reflected ==
    /\ path.pc = "loop" /\ path.redirects = 1
    /\ path.vertex.some /\ path.vertex.material.type = "Dielectric"
    /\ Dot(path.vertex.normal, path.ray.direction) > 0
    /\ path.ray.origin = VAdd(path.vertex.hit, VScale(path.vertex.normal, 2 * EPSILON))

\* C26: path_weight is never divided by a cont_prob <= 0: whenever the
\* division is executed 0 < cont_prob < 1, and a vertex whose cont_prob is
\* <= 0 ends the path (at the roulette, or before it) with path_weight as it
\* entered the vertex.
C26_DivisionIsSafe ==
    [][ (path.pc = "loop" /\ path'.pc \in {"loop", "done"} /\ path'.draws > path.draws) =>
            LET cont_prob == path'.vertex.cont_prob
            IN  /\ cont_prob = ContProb(path.path_weight)
                /\ path'.vertex.divided =>
                      /\ QLt(QZero, cont_prob) /\ QLt(cont_prob, QOne)
                      /\ path'.path_weight =
                            VQMul(VQDiv(path.path_weight, cont_prob),
                                  path'.vertex.bsdf_sample.weight)
                /\ QLe(cont_prob, QZero) =>
                      /\ ~path'.vertex.divided
                      /\ path'.pc = "done"
                      /\ path'.path_weight = path.path_weight
                /\ (~path'.vertex.divided /\ path'.pc = "loop") =>
                      /\ cont_prob = QOne
                      /\ path'.path_weight =
                            VQMul(path.path_weight, path'.vertex.bsdf_sample.weight)
      ]_vars

\* a path_weight of (1/2, 1/2, 1/2) divided by cont_prob = 1/2
C26_Witness ==
    /\ path.pc = "loop"
    /\ path.vertex.some /\ path.vertex.divided
    /\ path.vertex.cont_prob = Q(1, 2)
    /\ path.nb_bounces = 2
    /\ path.path_weight = Thrice(Q(1, 2))

\* the roulette ends a path whose cont_prob is negative
C26_NegativeEnds ==
    /\ path.pc = "done"
    /\ path.vertex.some /\ ~path.vertex.divided
    /\ QLt(path.vertex.cont_prob, QZero)
    /\ path.vertex.bsdf_sample.weight # VQZero

\* the roulette ends a path whose cont_prob is 0, whatever it draws
C26_ZeroEnds ==
    /\ path.pc = "done"
    /\ path.vertex.some /\ ~path.vertex.divided
    /\ path.vertex.cont_prob = QZero
    /\ path.vertex.bsdf_sample.weight # VQZero

\* C27: an emitter hit that is weighted by mis2 (specular_bounce false)
\* follows a vertex at which a light was drawn and sampled, and a vertex that
\* drew no light is followed by the weight 1; a sample of a purely specular
\* material (Mirror, Dielectric, Conductor) has is_specular = true, or a zero
\* weight that ends the path.
C27_NoLightDropped ==
    /\ [][ (path.pc = "loop" /\ path'.pc = "done" /\ path'.emitted = path.emitted + 1) =>
               /\ ~path.specular_bounce =>
                     /\ path.vertex.some
                     /\ path.vertex.selected /\ path.vertex.sampled
                     /\ ~path.vertex.bsdf_sample.is_specular
               /\ (path.vertex.some /\ ~path.vertex.selected) =>
                     /\ path.specular_bounce
                     /\ path'.radiance =
                           VQAdd(path.radiance,
                                 VQMul(path.path_weight,
                                       EvalDirect(SceneIntersect(tree, objects, background,
                                                                 path.ray).val.light,
                                                  path.ray.direction)))
         ]_vars
    /\ [](path.pc \in {"loop", "done"} /\ path.vertex.some =>
             /\ IsPurelySpecular(path.vertex.material) =>
                   \/ path.vertex.bsdf_sample.is_specular
                   \/ (path.vertex.bsdf_sample.weight = VQZero /\ path.pc = "done")
             /\ path.pc = "loop" => path.specular_bounce = path.vertex.bsdf_sample.is_specular)

\* an emitter hit after a diffuse bounce at which the emitter was sampled
C27_Witness ==
    /\ path.pc = "done" /\ path.emitted = 1
    /\ ~path.specular_bounce
    /\ path.vertex.some /\ path.vertex.selected /\ path.vertex.sampled
    /\ path.vertex.material.type = "Diffuse"

\* an emitter hit after the reflection by a conductor, which drew no light
C27_AfterConductor ==
    /\ path.pc = "done" /\ path.emitted = 1
    /\ path.specular_bounce
    /\ path.vertex.some /\ ~path.vertex.selected
    /\ path.vertex.material.type = "Conductor"
    /\ path.path_weight = Thrice(Q(5, 8))

\* a purely specular material hit from behind returns the null sample
C27_NullSample ==
    /\ path.pc = "done"
    /\ path.vertex.some /\ IsPurelySpecular(path.vertex.material)
    /\ path.vertex.bsdf_sample = NULL_SAMPLE

\* C28: at the first iteration last_pdf_dir = 1 and specular_bounce = true;
\* at every later iteration last_pdf_dir = bsdf_sample.pdf * cont_prob of the
\* vertex before it, with cont_prob computed from the path_weight that
\* entered that vertex (before the division of the roulette), and for a
\* sample that is not specular bsdf_sample.pdf is material.pdf of the sampled
\* direction: the product direct lighting weighs the same direction against.
C28_LastPdfDir ==
    /\ [](path.pc = "loop" =>
             /\ ~path.vertex.some =>
                   /\ path.last_pdf_dir = QOne
                   /\ path.specular_bounce
                   /\ path.nb_bounces = 0
             /\ path.vertex.some =>
                   /\ path.nb_bounces > 0
                   /\ path.last_pdf_dir =
                         QMul(path.vertex.bsdf_sample.pdf, path.vertex.cont_prob)
                   /\ ~path.vertex.bsdf_sample.is_specular =>
                         path.last_pdf_dir =
                             QMul(MaterialPdf(path.vertex.material, path.vertex.local_in,
                                              path.vertex.bsdf_sample.direction),
                                  path.vertex.cont_prob))
    /\ [][ (path.pc = "loop" /\ path'.pc = "loop" /\ path'.nb_bounces = path.nb_bounces + 1) =>
               /\ path'.vertex.cont_prob = ContProb(path.path_weight)
               /\ path'.vertex.bsdf_sample \in
                      { MaterialSample(path'.vertex.material, path'.vertex.local_in, rnd_z)
                        : rnd_z \in RngValues }
         ]_vars

\* after a diffuse vertex entered with path_weight (1/2, 1/2, 1/2):
\* last_pdf_dir is the pdf of the sample times cont_prob = 1/2
C28_Witness ==
    /\ path.pc = "loop"
    /\ path.vertex.some /\ path.vertex.cont_prob = Q(1, 2)
    /\ path.vertex.material.type = "Diffuse"
    /\ path.last_pdf_dir = QMul(INV_PI, Q(1, 2))
    /\ path.last_pdf_dir # path.vertex.bsdf_sample.pdf

(***************************************************************************)
(* sample1d and the samples of Distribution1D and Distribution2D           *)
(***************************************************************************)
\* cdf.binary_search_by(|v| v.partial_cmp(&u).unwrap()), with the index of
\* Ok and of Err alike: an index whose entry equals u, any of them when
\* several do, and otherwise the number of entries below u
BinarySearch(cdf, u) ==
    IF \E j \in 1..Len(cdf) : cdf[j] = u
    THEN {j - 1 : j \in {k \in 1..Len(cdf) : cdf[k] = u}}
    ELSE {Cardinality({k \in 1..Len(cdf) : QLt(cdf[k], u)})}

\* sample1d: every (index, pdf) it can return; pdf[i] panics past the end
Sample1d(pdf, cdf, u) ==
    { IF InBounds(i, pdf) THEN [ok |-> TRUE, i |-> i, pdf |-> At(pdf, i)]
      ELSE Panic("index out of bounds")
      : i \in BinarySearch(cdf, u) }

\* Distribution1D::new
Distribution1DNew(weights) ==
    CHOOSE res \in {[pdf |-> m.pdf, cdf |-> m.cdf] : m \in {Make1d(weights)}} : TRUE

\* Distribution2D::sample
Distribution2DSample(d, u, v) ==
    UNION { IF ~r1.ok THEN {r1}
            ELSE { IF ~r0.ok THEN r0
                   ELSE [ok |-> TRUE, x |-> r0.i, y |-> r1.i, pdf |-> QMul(r0.pdf, r1.pdf)]
                   : r0 \in Sample1d(RowOf(d.conditional_pdf, d, r1.i + 1),
                                     RowOf(d.conditional_cdf, d, r1.i + 1), u) }
            : r1 \in Sample1d(d.marginal_pdf, d.marginal_cdf, v) }

\* Distribution2D::pdf
Distribution2DPdf(d, x0, y0) ==
    LET x == IF x0 < d.width - 1 THEN x0 ELSE d.width - 1
        y == IF y0 < d.height - 1 THEN y0 ELSE d.height - 1
    IN  QMul(At(d.conditional_pdf, y * d.width + x), At(d.marginal_pdf, y))

\* the numbers handed to sample: 0, and the entries below 1 of the cdfs of
\* the model's weights
SampleNumbers == {QZero, Q(1, 4), Q(1, 2), Q(3, 4)}
Lengths1D == {1, 2, 3}

PositiveTotal(weights) == \E i \in 1..Len(weights) : QLt(QZero, weights[i])

\* Distribution1D::new(weights).sample(u)
CallSample1D ==
    /\ query = NoQuery
    /\ \E n \in Lengths1D :
       \E weights \in [1..n -> Weights], u \in SampleNumbers :
           /\ PositiveTotal(weights)
           /\ \E d \in {Distribution1DNew(weights)} :
              \E result \in Sample1d(d.pdf, d.cdf, u) :
                  query' = [ op |-> "Distribution1D::sample", weights |-> weights,
                             d |-> d, u |-> u, result |-> result ]
    /\ UNCHANGED <<sceneVars, path, render>>

\* Distribution2D::new(weights, width, height).sample(u, v)
CallSample2D ==
    /\ query = NoQuery
    /\ \E size \in DistSizes :
       \E weights \in [1..(size[1] * size[2]) -> Weights],
          u \in SampleNumbers, v \in SampleNumbers :
           /\ PositiveTotal(weights)
           /\ \E d \in {Distribution2DNew(weights, size[1], size[2])} :
              \E result \in Distribution2DSample(d, u, v) :
                  query' = [ op |-> "Distribution2D::sample", weights |-> weights,
                             d |-> d, u |-> u, v |-> v, result |-> result ]
    /\ UNCHANGED <<sceneVars, path, render>>

\* C25: on a distribution built from non-negative weights with a positive
\* total, sample returns for every u (and v) of [0, 1) an index inside the
\* arrays whose pdf is strictly positive, and the pdf it returns is pdf(x, y)
\* of the texel it returns.
C25_SampleInRange ==
    /\ query.op = "Distribution1D::sample" =>
          /\ query.result.ok
          /\ query.result.i \in 0..(Len(query.weights) - 1)
          /\ QLt(QZero, query.result.pdf)
          /\ query.result.pdf = At(query.d.pdf, query.result.i)
    /\ query.op = "Distribution2D::sample" =>
          /\ query.result.ok
          /\ query.result.x \in 0..(query.d.width - 1)
          /\ query.result.y \in 0..(query.d.height - 1)
          /\ QLt(QZero, query.result.pdf)
          /\ query.result.pdf = Distribution2DPdf(query.d, query.result.x, query.result.y)

\* what sample does guarantee: a sample that does not panic returns the pdf
\* of the index it returns, and when every weight is positive the index is
\* inside the arrays and its pdf is positive
C25_SampleOfPositiveWeights ==
    /\ query.op = "Distribution1D::sample" =>
          /\ query.result.ok => query.result.pdf = At(query.d.pdf, query.result.i)
          /\ (\A k \in 1..Len(query.weights) : QLt(QZero, query.weights[k])) =>
                /\ query.result.ok
                /\ QLt(QZero, query.result.pdf)
    /\ query.op = "Distribution2D::sample" =>
          /\ query.result.ok =>
                query.result.pdf = Distribution2DPdf(query.d, query.result.x, query.result.y)
          /\ (\A k \in 1..Len(query.weights) : QLt(QZero, query.weights[k])) =>
                /\ query.result.ok
                /\ query.result.x \in 0..(query.d.width - 1)
                /\ query.result.y \in 0..(query.d.height - 1)
                /\ QLt(QZero, query.result.pdf)

\* Distribution1D::new([0, 1]).sample(0) returns the entry of weight 0
C25_ZeroPdfSampled ==
    /\ query.op = "Distribution1D::sample"
    /\ query.weights = <<QZero, QOne>> /\ query.u = QZero
    /\ query.result = [ok |-> TRUE, i |-> 0, pdf |-> QZero]

\* a row of zero weights is chosen by v = 0, and u = 1/2 indexes past its end
C25_PastTheEnd ==
    /\ query.op = "Distribution2D::sample"
    /\ query.weights = <<QZero, QZero, QOne, QOne>> /\ query.d.width = 2
    /\ query.v = QZero /\ query.u = Q(1, 2)
    /\ ~query.result.ok

(***************************************************************************)
(* Parallelogram::intersect on parallelograms of the plane y = 0, with     *)
(* edges that are perpendicular and edges that are not                     *)
(***************************************************************************)
Skewed == ParallelogramNew(<<0, 0, 0>>, <<2, 0, 0>>, <<2, 0, 2>>)
Sheared == ParallelogramNew(<<1, 0, 1>>, <<2, 0, 2>>, <<0, 0, 2>>)
Parallelograms == {Floor(0, 0), Skewed, Sheared}

\* rays along the normal of the plane, from both sides
PlaneRays ==
    { [origin |-> <<x, y, z>>, direction |-> <<0, 0 - y, 0>>]
      : x \in -1..5, y \in {-1, 1}, z \in -1..5 }

\* Parallelogram::intersect(ray) and Parallelogram::aabb()
CallParallelogramIntersect ==
    /\ query = NoQuery
    /\ \E s \in Parallelograms, ray \in PlaneRays :
           query' = [ op |-> "Parallelogram::intersect", s |-> s, ray |-> ray,
                      result |-> ParallelogramIntersect(s, ray),
                      aabb |-> ParallelogramAabb(s) ]
    /\ UNCHANGED <<sceneVars, path, render>>

\* the a and b of p = position + a * edge1 + b * edge2, for a point p of the
\* plane of the parallelogram
EdgeCoordinates(s, point) ==
    LET p == VSub(point, s.position)
        d12 == Dot(s.edge1, s.edge2)
        det == s.l1 * s.l2 - d12 * d12
    IN  << Q(s.l2 * Dot(s.edge1, p) - d12 * Dot(s.edge2, p), det),
           Q(s.l1 * Dot(s.edge2, p) - d12 * Dot(s.edge1, p), det) >>

InUnit(a) == QLe(QZero, a) /\ QLe(a, QOne)
InsideAabb(bb, p) == \A k \in 1..3 : bb.min[k] <= p[k] /\ p[k] <= bb.max[k]
HitPoint(q) == PointAt(q.ray, q.result.val.distance)

\* C29: every point at which Parallelogram::intersect reports a hit lies
\* inside Parallelogram::aabb() and is position + a * edge1 + b * edge2 with
\* a and b in [0, 1], whether or not the edges are perpendicular.
C29_HitInsideAabb ==
    (query.op = "Parallelogram::intersect" /\ query.result.some) =>
        /\ InsideAabb(query.aabb, HitPoint(query))
        /\ InUnit(EdgeCoordinates(query.s, HitPoint(query))[1])
        /\ InUnit(EdgeCoordinates(query.s, HitPoint(query))[2])

\* the point at which a ray of PlaneRays meets the plane y = 0
Foot(ray) == PointAt(ray, 1)

\* what intersect does guarantee: with perpendicular edges the hits are the
\* points of the parallelogram, all inside its aabb
C29_HitInsideAabbOfRectangle ==
    (query.op = "Parallelogram::intersect" /\ Dot(query.s.edge1, query.s.edge2) = 0) =>
        /\ query.result.some <=>
              /\ InUnit(EdgeCoordinates(query.s, Foot(query.ray))[1])
              /\ InUnit(EdgeCoordinates(query.s, Foot(query.ray))[2])
        /\ query.result.some =>
              /\ HitPoint(query) = Foot(query.ray)
              /\ InsideAabb(query.aabb, HitPoint(query))

\* the hit that Skewed reports at (0, 0, 4), outside its box 0 <= z <= 2
C29_HitOutside ==
    /\ query.op = "Parallelogram::intersect" /\ query.s = Skewed
    /\ query.result.some
    /\ HitPoint(query) = <<0, 0, 4>>
    /\ query.aabb.max[3] = 2

(***************************************************************************)
(* Mesh::new: BVH::build over the triangles, then compute_edges.  The      *)
(* triangle array is `objects`, the BVH is `tree`, and `query` keeps the   *)
(* cached edges of the mesh.                                               *)
(***************************************************************************)
Triangle(id, idxs) == [id |-> id, idxs |-> idxs]
TrianglePool ==
    { Triangle(1, <<4, 5, 6>>), Triangle(2, <<0, 1, 2>>),
      Triangle(3, <<3, 2, 1>>), Triangle(4, <<1, 2, 0>>) }
MaxTriangles == 3

\* the triangle arrays handed to Mesh::new
MeshInputs ==
    { s \in UNION {[1..n -> TrianglePool] : n \in 1..MaxTriangles} :
          \A i, j \in 1..Len(s) : i # j => s[i].id # s[j].id }

\* Mesh::compute_edges
ComputeEdges(triangles) ==
    [ e1 |-> [i \in 1..Len(triangles) |-> VSub(TriVertex(triangles[i], 1), TriVertex(triangles[i], 0))],
      e2 |-> [i \in 1..Len(triangles) |-> VSub(TriVertex(triangles[i], 2), TriVertex(triangles[i], 0))] ]

\* (mutant) the edges computed from the array as it was given
EdgeTrianglesAsGiven(given, built) == given

\* the array compute_edges is called on: `triangles` after BVH::build has
\* reordered it
EdgeTriangles(given, built) == built

InitMesh ==
    /\ \E triangles \in MeshInputs : SceneInit(triangles, FALSE)
    /\ query = NoQuery
    /\ path = NoPath
    /\ render = NoRender

\* Mesh::new after BVH::build has returned (mesh.rs 62-71)
MeshNewEdges ==
    /\ phase = "build"
    /\ DOMAIN tasks = {}
    /\ \E edges \in {ComputeEdges(EdgeTriangles(input, objects))} :
           query' = [ op |-> "Mesh::new", triangles_e1 |-> edges.e1,
                      triangles_e2 |-> edges.e2 ]
    /\ phase' = "ready"
    /\ UNCHANGED <<input, objects, background, buffer, tree, tasks, light_idxs, path, render>>

Miss == [t |-> Q(-1, 1), uv |-> <<QZero, QZero>>]

\* Mesh::intersect_triangle
IntersectTriangle(triangles, triangles_e1, triangles_e2, ray, i) ==
    CHOOSE res \in
        { LET p == Cross(ray.direction, edge2)
              det == Dot(edge1, p)
              t == VSub(ray.origin, v0)
              u == Q(Dot(t, p), det)
              q == Cross(t, edge1)
              v == Q(Dot(ray.direction, q), det)
          IN  IF QLt(u, QZero) \/ QLt(QOne, u) THEN Miss
              ELSE IF QLt(v, QZero) \/ QLt(QOne, QAdd(u, v)) THEN Miss
              ELSE [t |-> Q(Dot(edge2, q), det), uv |-> <<u, v>>]
          : v0 \in {TriVertex(At(triangles, i), 0)},
            edge1 \in {At(triangles_e1, i)}, edge2 \in {At(triangles_e2, i)} } : TRUE

\* rays along z through the inside of each triangle of the pool, and one
\* that misses them all
MeshRays ==
    { [origin |-> <<x, 1, -2>>, direction |-> <<0, 0, 1>>] : x \in {1, 3, 13, 7} }
    \cup {[origin |-> <<3, 3, -2>>, direction |-> <<0, 0, 1>>]}

\* the call intersect_item(ray, i) that intersect_items makes for an index
\* i of the leaf p of the mesh's BVH
CallIntersectTriangle ==
    /\ phase = "ready"
    /\ query.op \in {"Mesh::new", "Mesh::intersect_triangle"}
    /\ \E p \in DOMAIN tree, ray \in MeshRays :
           /\ tree[p].kind = "Leaf"
           /\ \E i \in tree[p].begin..(tree[p].end - 1) :
                  query' = [ query EXCEPT !.op = "Mesh::intersect_triangle" ]
                               @@ [ leaf |-> p, i |-> i, ray |-> ray,
                                    result |-> IntersectTriangle(objects, query.triangles_e1,
                                                                 query.triangles_e2, ray, i) ]
    /\ UNCHANGED <<sceneVars, path, render>>

NextMesh == Build \/ MeshNewEdges \/ CallIntersectTriangle

SpecMesh == InitMesh /\ [][NextMesh]_vars

\* the result of intersect_triangle with the edges taken from the vertices
\* of the triangle itself
TriangleHit(triangle, ray) ==
    IntersectTriangle(<<triangle>>,
                      <<VSub(TriVertex(triangle, 1), TriVertex(triangle, 0))>>,
                      <<VSub(TriVertex(triangle, 2), TriVertex(triangle, 0))>>, ray, 0)

\* C30: after Mesh::new, triangles_e1[i] and triangles_e2[i] are the edges
\* vertices[idxs[1]] - vertices[idxs[0]] and vertices[idxs[2]] - vertices[idxs[0]]
\* of triangles[i] of the reordered array, the leaves of the BVH hold the
\* indices of that array at which the triangles they were built from lie,
\* and intersect_triangle(ray, i) for an index i of a leaf is the
\* intersection with that triangle.
C30_EdgesAligned ==
    (phase = "ready" /\ query.op \in {"Mesh::new", "Mesh::intersect_triangle"}) =>
        /\ Len(query.triangles_e1) = Len(objects)
        /\ Len(query.triangles_e2) = Len(objects)
        /\ \A i \in 1..Len(objects) :
               /\ query.triangles_e1[i] = VSub(TriVertex(objects[i], 1), TriVertex(objects[i], 0))
               /\ query.triangles_e2[i] = VSub(TriVertex(objects[i], 2), TriVertex(objects[i], 0))
        /\ {objects[i].id : i \in 1..Len(objects)} = {input[i].id : i \in 1..Len(input)}
        /\ \A p \in DOMAIN tree :
               tree[p].kind = "Leaf" =>
                   /\ tree[p].begin <= tree[p].end /\ tree[p].end <= Len(objects)
                   /\ Ids(objects, tree[p].begin, tree[p].end) = tree[p].handed
                   /\ \A i \in tree[p].begin..(tree[p].end - 1) :
                          Encloses(tree[p].bbox, TriBbox(At(objects, i)))
        /\ query.op = "Mesh::intersect_triangle" =>
               /\ At(objects, query.i).id \in tree[query.leaf].handed
               /\ query.result = TriangleHit(At(objects, query.i), query.ray)

\* the build has moved the triangle given first to the end of the array,
\* and a ray hits it there
C30_Witness ==
    /\ phase = "ready" /\ query.op = "Mesh::intersect_triangle"
    /\ Len(input) = 3 /\ input[1].id = 1
    /\ objects # input
    /\ objects[3].id = 1 /\ query.i = 2
    /\ query.result.t = Q(6, 1)

InitCalls ==
    /\ SceneInit(<<>>, FALSE)
    /\ query = NoQuery
    /\ path = NoPath
    /\ render = NoRender

NextCalls ==
    CallEval \/ CallPdf \/ CallReflectance \/ CallSample \/ CallDistribution2D
        \/ CallFromUp \/ CallMeshNew \/ CallCreateMesh \/ CallMeshIntersect
        \/ CallAabb \/ CallSceneNew \/ CallTextureEval
        \/ CallInverse \/ CallSample1D \/ CallSample2D
        \/ CallParallelogramIntersect \/ Return

SpecCalls == InitCalls /\ [][NextCalls]_vars

====
